---- MODULE Spec2Model ----
(***************************************************************************)
(* Model of the IT-benchmark tool: the analysis engine                     *)
(* (src/analysis/engine.py), the benchmark catalog (src/data/benchmarks.py) *)
(* and the session state of the pages (src/app.py, src/pages).             *)
(*                                                                         *)
(* Numbers.  Every Python number (threshold, value, score) is an exact     *)
(* rational [num, den] in lowest terms with den > 0, so that equal numbers *)
(* are equal records; den = 0 stands for Python's ZeroDivisionError.  IEEE *)
(* rounding is not modelled.                                               *)
(***************************************************************************)
EXTENDS Integers, FiniteSets, Sequences, TLC

\* One (band, value) pair and what the positioning functions return for it.
VARIABLES bench, value, quartile, score, score_line, insight, insight_arg,
          delta_result

\* The catalog tables of data/benchmarks.py in use (catalog names them, see
\* metric_definitions and industry_benchmarks), the arguments of one analysis,
\* what each engine function returned for them, and the functions called so
\* far.
VARIABLES catalog, client_data, industry, derived, benchmarks, results, calls

\* The entries of the mapping get_benchmarks returned that are the catalog's
\* own row objects rather than dicts built by the call.
VARIABLES shared_entries

\* What get_summary_stats returned and the list it was given.
VARIABLES summary, summarized

\* Concurrent run_full_analysis invocations: each thread's arguments, locals
\* and position, and the lists allocated so far.
VARIABLES threads, heap

\* st.session_state, what the last rerun of the script did, and whether Clear
\* Data was clicked with no accepted submission since.
VARIABLES session, last_event, cleared

positioning_vars == <<bench, value, quartile, score, score_line, insight,
                      insight_arg, delta_result>>

catalog_vars == <<catalog>>

analysis_vars == <<client_data, industry, derived, benchmarks, results, calls,
                   shared_entries>>

report_vars == <<summary, summarized>>

thread_vars == <<threads, heap>>

session_vars == <<session, last_event, cleared>>

vars == <<positioning_vars, catalog_vars, analysis_vars, report_vars,
          thread_vars, session_vars>>

\* How many fields of a raw-input profile are changed at most.
MaxChanges == 1

\* How many run_full_analysis invocations run concurrently.
MaxThreads == 2

\* The metrics a cut-down catalog draws from: the first MaxMetrics of
\* METRIC_ORDER.
MaxMetrics == 3

\* Largest threshold of the enumerated bands; values range one step past it.
MaxThreshold == 4

---------------------------------------------------------------------------
(* Exact rational arithmetic standing for Python floats.                   *)

Abs(n) == IF n < 0 THEN -n ELSE n

RECURSIVE GCD(_, _)
GCD(a, b) == IF b = 0 THEN a ELSE GCD(b, a % b)

ZeroDivisionError == [num |-> 0, den |-> 0]

IsNumber(x) == x.den > 0

\* n / d in lowest terms, sign carried by the numerator.
Frac(n, d) ==
    IF d = 0 THEN ZeroDivisionError
    ELSE LET g == GCD(Abs(n), Abs(d))
             s == IF d < 0 THEN -1 ELSE 1
         IN  [num |-> (s * n) \div g, den |-> (s * d) \div g]

Num(n) == [num |-> n, den |-> 1]

\* Sums and products cancel common factors before multiplying, to keep the
\* intermediate integers small.
FAdd(x, y) ==
    IF ~IsNumber(x) \/ ~IsNumber(y) THEN ZeroDivisionError
    ELSE LET g == GCD(x.den, y.den)
         IN  Frac(x.num * (y.den \div g) + y.num * (x.den \div g),
                  x.den * (y.den \div g))

FNeg(x) == [num |-> -x.num, den |-> x.den]

FSub(x, y) == FAdd(x, FNeg(y))

FMul(x, y) ==
    IF ~IsNumber(x) \/ ~IsNumber(y) THEN ZeroDivisionError
    ELSE LET g == GCD(Abs(x.num), y.den)
             h == GCD(Abs(y.num), x.den)
         IN  Frac((x.num \div g) * (y.num \div h), (x.den \div h) * (y.den \div g))

\* Python's x / y on floats: raises ZeroDivisionError when y == 0.
FDiv(x, y) ==
    IF ~IsNumber(x) \/ ~IsNumber(y) \/ y.num = 0 THEN ZeroDivisionError
    ELSE FMul(x, Frac(y.den, y.num))

\* Python's sum() over a list of floats.
RECURSIVE Sum(_)
Sum(xs) == IF Len(xs) = 0 THEN Num(0) ELSE FAdd(xs[1], Sum(Tail(xs)))

FAbs(x) == [num |-> Abs(x.num), den |-> x.den]

FLe(x, y) == x.num * y.den <= y.num * x.den

FLt(x, y) == x.num * y.den < y.num * x.den

FGe(x, y) == FLe(y, x)

FGt(x, y) == FLt(y, x)

---------------------------------------------------------------------------
(* Inputs.                                                                 *)

Directions == {"lower_is_better", "higher_is_better"}

Labels == {"top_quartile", "above_median", "below_median", "bottom_quartile"}

\* A merged benchmark entry, reduced to the fields the engine reads.
Band(tq, med, bq, dir) ==
    [top_quartile |-> tq, median |-> med, bottom_quartile |-> bq,
     direction |-> dir,
     insight_high |-> "text_high", insight_low |-> "text_low",
     insight_aligned |-> "text_aligned"]

\* financial_services / it_spend_pct_revenue: 5.7 / 7.9 / 11.4.
ItSpendPctRevenueBand ==
    Band(Frac(57, 10), Frac(79, 10), Frac(114, 10), "lower_is_better")

Thresholds == 0 .. MaxThreshold

\* Every triple of thresholds: ordered, tied and unordered bands alike.
Bands ==
    { Band(Num(tq), Num(med), Num(bq), dir) :
        tq \in Thresholds, med \in Thresholds, bq \in Thresholds,
        dir \in Directions }
    \cup {ItSpendPctRevenueBand}

Values == { Num(v) : v \in (-1) .. (MaxThreshold + 1) }

ValuesOf(b) ==
    IF b = ItSpendPctRevenueBand
    THEN {Num(5), Frac(57, 10), Num(7), Frac(79, 10), Num(10), Frac(114, 10), Num(12)}
    ELSE Values

\* Quartile arguments handed to get_insight: the four labels and a stray one.
QuartileArgs == Labels \cup {"unknown"}

---------------------------------------------------------------------------
(* src/data/benchmarks.py                                                  *)

\* Python's dict.get(key, default) and the empty dict.
Get(d, key, default) == IF key \in DOMAIN d THEN d[key] ELSE default

EmptyDict == <<>>

\* Python's {**p, **q}: every key of either, q's value where both have it.
DictMerge(p, q) ==
    [k \in DOMAIN p \cup DOMAIN q |-> IF k \in DOMAIN q THEN q[k] ELSE p[k]]

\* METRIC_DEFINITIONS: the description texts are shortened to a tag.
METRIC_DEFINITIONS ==
    "it_spend_pct_revenue" :>
        [name |-> "IT Spend as % of Revenue", category |-> "Spend",
         unit |-> "%", format |-> ".1f",
         direction |-> "lower_is_better",
         description |-> "it_spend_pct_revenue.description"] @@
    "it_spend_per_employee" :>
        [name |-> "IT Spend per Employee", category |-> "Spend",
         unit |-> "$", format |-> ",.0f",
         direction |-> "lower_is_better",
         description |-> "it_spend_per_employee.description"] @@
    "it_spend_pct_opex" :>
        [name |-> "IT Spend as % of OpEx", category |-> "Spend",
         unit |-> "%", format |-> ".1f",
         direction |-> "lower_is_better",
         description |-> "it_spend_pct_opex.description"] @@
    "it_budget_yoy_growth" :>
        [name |-> "IT Budget Year-over-Year Growth", category |-> "Spend",
         unit |-> "%", format |-> ".1f",
         direction |-> "higher_is_better",
         description |-> "it_budget_yoy_growth.description"] @@
    "it_staff_pct_employees" :>
        [name |-> "IT Staff as % of Total Employees", category |-> "Staffing",
         unit |-> "%", format |-> ".1f",
         direction |-> "lower_is_better",
         description |-> "it_staff_pct_employees.description"] @@
    "it_staffing_ratio" :>
        [name |-> "IT Staffing Ratio (Users per IT FTE)", category |-> "Staffing",
         unit |-> "ratio", format |-> ".0f",
         direction |-> "lower_is_better",
         description |-> "it_staffing_ratio.description"] @@
    "run_budget_pct" :>
        [name |-> "Run (Keep-the-Lights-On) Budget %", category |-> "Budget Allocation",
         unit |-> "%", format |-> ".0f",
         direction |-> "lower_is_better",
         description |-> "run_budget_pct.description"] @@
    "grow_budget_pct" :>
        [name |-> "Grow (Enhance) Budget %", category |-> "Budget Allocation",
         unit |-> "%", format |-> ".0f",
         direction |-> "higher_is_better",
         description |-> "grow_budget_pct.description"] @@
    "transform_budget_pct" :>
        [name |-> "Transform (Innovation) Budget %", category |-> "Budget Allocation",
         unit |-> "%", format |-> ".0f",
         direction |-> "higher_is_better",
         description |-> "transform_budget_pct.description"] @@
    "cloud_pct_budget" :>
        [name |-> "Cloud Spend as % of IT Budget", category |-> "Technology Mix",
         unit |-> "%", format |-> ".0f",
         direction |-> "higher_is_better",
         description |-> "cloud_pct_budget.description"] @@
    "cybersecurity_pct_budget" :>
        [name |-> "Cybersecurity Spend as % of IT Budget", category |-> "Technology Mix",
         unit |-> "%", format |-> ".1f",
         direction |-> "higher_is_better",
         description |-> "cybersecurity_pct_budget.description"] @@
    "it_labor_pct_budget" :>
        [name |-> "IT Labor Cost as % of IT Budget", category |-> "Cost Structure",
         unit |-> "%", format |-> ".0f",
         direction |-> "lower_is_better",
         description |-> "it_labor_pct_budget.description"] @@
    "outsourcing_pct_budget" :>
        [name |-> "Outsourcing Spend as % of IT Budget", category |-> "Cost Structure",
         unit |-> "%", format |-> ".0f",
         direction |-> "higher_is_better",
         description |-> "outsourcing_pct_budget.description"] @@
    "app_pct_budget" :>
        [name |-> "Application Spend % (vs Infrastructure)", category |-> "Cost Structure",
         unit |-> "%", format |-> ".0f",
         direction |-> "higher_is_better",
         description |-> "app_pct_budget.description"] @@
    "system_availability" :>
        [name |-> "Core System Availability", category |-> "Operations",
         unit |-> "%", format |-> ".2f",
         direction |-> "higher_is_better",
         description |-> "system_availability.description"] @@
    "it_attrition_rate" :>
        [name |-> "IT Employee Attrition Rate", category |-> "Operations",
         unit |-> "%", format |-> ".0f",
         direction |-> "lower_is_better",
         description |-> "it_attrition_rate.description"] @@
    "helpdesk_cost_per_ticket" :>
        [name |-> "Help Desk Cost per Ticket", category |-> "Operations",
         unit |-> "$", format |-> ",.0f",
         direction |-> "lower_is_better",
         description |-> "helpdesk_cost_per_ticket.description"]

\* INDUSTRY_BENCHMARKS["financial_services"]: the insight texts are shortened to a tag.
FinancialServicesBands ==
    "it_spend_pct_revenue" :>
        [top_quartile |-> Frac(57, 10), median |-> Frac(79, 10),
         bottom_quartile |-> Frac(57, 5),
         insight_high |-> "financial_services.it_spend_pct_revenue.insight_high",
         insight_low |-> "financial_services.it_spend_pct_revenue.insight_low",
         insight_aligned |-> "financial_services.it_spend_pct_revenue.insight_aligned",
         source |-> "Gartner / Avasant Computer Economics"] @@
    "it_spend_per_employee" :>
        [top_quartile |-> Num(18000), median |-> Num(35000),
         bottom_quartile |-> Num(55000),
         insight_high |-> "financial_services.it_spend_per_employee.insight_high",
         insight_low |-> "financial_services.it_spend_per_employee.insight_low",
         insight_aligned |-> "financial_services.it_spend_per_employee.insight_aligned",
         source |-> "Gartner / SouthState"] @@
    "it_spend_pct_opex" :>
        [top_quartile |-> Frac(17, 2), median |-> Frac(56, 5),
         bottom_quartile |-> Num(15),
         insight_high |-> "financial_services.it_spend_pct_opex.insight_high",
         insight_low |-> "financial_services.it_spend_pct_opex.insight_low",
         insight_aligned |-> "financial_services.it_spend_pct_opex.insight_aligned",
         source |-> "Gartner / SouthState"] @@
    "it_budget_yoy_growth" :>
        [top_quartile |-> Num(8), median |-> Frac(47, 10),
         bottom_quartile |-> Num(2),
         insight_high |-> "financial_services.it_budget_yoy_growth.insight_high",
         insight_low |-> "financial_services.it_budget_yoy_growth.insight_low",
         insight_aligned |-> "financial_services.it_budget_yoy_growth.insight_aligned",
         source |-> "Gartner / SouthState"] @@
    "it_staff_pct_employees" :>
        [top_quartile |-> Num(8), median |-> Frac(123, 10),
         bottom_quartile |-> Num(17),
         insight_high |-> "financial_services.it_staff_pct_employees.insight_high",
         insight_low |-> "financial_services.it_staff_pct_employees.insight_low",
         insight_aligned |-> "financial_services.it_staff_pct_employees.insight_aligned",
         source |-> "Gartner / GoWorkWize"] @@
    "it_staffing_ratio" :>
        [top_quartile |-> Num(50), median |-> Num(70),
         bottom_quartile |-> Num(100),
         insight_high |-> "financial_services.it_staffing_ratio.insight_high",
         insight_low |-> "financial_services.it_staffing_ratio.insight_low",
         insight_aligned |-> "financial_services.it_staffing_ratio.insight_aligned",
         source |-> "GoWorkWize / TalentMSH"] @@
    "run_budget_pct" :>
        [top_quartile |-> Num(55), median |-> Num(67),
         bottom_quartile |-> Num(78),
         insight_high |-> "financial_services.run_budget_pct.insight_high",
         insight_low |-> "financial_services.run_budget_pct.insight_low",
         insight_aligned |-> "financial_services.run_budget_pct.insight_aligned",
         source |-> "Gartner / SouthState"] @@
    "grow_budget_pct" :>
        [top_quartile |-> Num(27), median |-> Num(22),
         bottom_quartile |-> Num(15),
         insight_high |-> "financial_services.grow_budget_pct.insight_high",
         insight_low |-> "financial_services.grow_budget_pct.insight_low",
         insight_aligned |-> "financial_services.grow_budget_pct.insight_aligned",
         source |-> "Gartner / SouthState"] @@
    "transform_budget_pct" :>
        [top_quartile |-> Num(18), median |-> Num(11),
         bottom_quartile |-> Num(7),
         insight_high |-> "financial_services.transform_budget_pct.insight_high",
         insight_low |-> "financial_services.transform_budget_pct.insight_low",
         insight_aligned |-> "financial_services.transform_budget_pct.insight_aligned",
         source |-> "Gartner / SouthState"] @@
    "cloud_pct_budget" :>
        [top_quartile |-> Num(40), median |-> Num(32),
         bottom_quartile |-> Num(20),
         insight_high |-> "financial_services.cloud_pct_budget.insight_high",
         insight_low |-> "financial_services.cloud_pct_budget.insight_low",
         insight_aligned |-> "financial_services.cloud_pct_budget.insight_aligned",
         source |-> "Gartner / DataStackHub"] @@
    "cybersecurity_pct_budget" :>
        [top_quartile |-> Num(14), median |-> Frac(48, 5),
         bottom_quartile |-> Num(6),
         insight_high |-> "financial_services.cybersecurity_pct_budget.insight_high",
         insight_low |-> "financial_services.cybersecurity_pct_budget.insight_low",
         insight_aligned |-> "financial_services.cybersecurity_pct_budget.insight_aligned",
         source |-> "IANS Research / Deloitte"] @@
    "it_labor_pct_budget" :>
        [top_quartile |-> Num(30), median |-> Num(38),
         bottom_quartile |-> Num(48),
         insight_high |-> "financial_services.it_labor_pct_budget.insight_high",
         insight_low |-> "financial_services.it_labor_pct_budget.insight_low",
         insight_aligned |-> "financial_services.it_labor_pct_budget.insight_aligned",
         source |-> "Gartner / SouthState"] @@
    "outsourcing_pct_budget" :>
        [top_quartile |-> Num(30), median |-> Num(18),
         bottom_quartile |-> Num(10),
         insight_high |-> "financial_services.outsourcing_pct_budget.insight_high",
         insight_low |-> "financial_services.outsourcing_pct_budget.insight_low",
         insight_aligned |-> "financial_services.outsourcing_pct_budget.insight_aligned",
         source |-> "Gartner / ConnectBit"] @@
    "app_pct_budget" :>
        [top_quartile |-> Num(65), median |-> Num(60),
         bottom_quartile |-> Num(50),
         insight_high |-> "financial_services.app_pct_budget.insight_high",
         insight_low |-> "financial_services.app_pct_budget.insight_low",
         insight_aligned |-> "financial_services.app_pct_budget.insight_aligned",
         source |-> "McKinsey"] @@
    "system_availability" :>
        [top_quartile |-> Frac(9999, 100), median |-> Frac(1999, 20),
         bottom_quartile |-> Frac(999, 10),
         insight_high |-> "financial_services.system_availability.insight_high",
         insight_low |-> "financial_services.system_availability.insight_low",
         insight_aligned |-> "financial_services.system_availability.insight_aligned",
         source |-> "Industry standard SLA benchmarks"] @@
    "it_attrition_rate" :>
        [top_quartile |-> Num(10), median |-> Num(15),
         bottom_quartile |-> Num(22),
         insight_high |-> "financial_services.it_attrition_rate.insight_high",
         insight_low |-> "financial_services.it_attrition_rate.insight_low",
         insight_aligned |-> "financial_services.it_attrition_rate.insight_aligned",
         source |-> "Payscale / BambooHR"] @@
    "helpdesk_cost_per_ticket" :>
        [top_quartile |-> Num(12), median |-> Num(22),
         bottom_quartile |-> Num(40),
         insight_high |-> "financial_services.helpdesk_cost_per_ticket.insight_high",
         insight_low |-> "financial_services.helpdesk_cost_per_ticket.insight_low",
         insight_aligned |-> "financial_services.helpdesk_cost_per_ticket.insight_aligned",
         source |-> "MetricNet / HDI"]

\* INDUSTRY_BENCHMARKS["healthcare"]: the insight texts are shortened to a tag.
HealthcareBands ==
    "it_spend_pct_revenue" :>
        [top_quartile |-> Num(3), median |-> Frac(19, 5),
         bottom_quartile |-> Num(5),
         insight_high |-> "healthcare.it_spend_pct_revenue.insight_high",
         insight_low |-> "healthcare.it_spend_pct_revenue.insight_low",
         insight_aligned |-> "healthcare.it_spend_pct_revenue.insight_aligned",
         source |-> "Avasant / Computer Economics / PEAKE"] @@
    "it_spend_per_employee" :>
        [top_quartile |-> Num(6000), median |-> Num(8500),
         bottom_quartile |-> Num(12000),
         insight_high |-> "healthcare.it_spend_per_employee.insight_high",
         insight_low |-> "healthcare.it_spend_per_employee.insight_low",
         insight_aligned |-> "healthcare.it_spend_per_employee.insight_aligned",
         source |-> "Avasant / Computer Economics"] @@
    "it_spend_pct_opex" :>
        [top_quartile |-> Num(2), median |-> Frac(14, 5),
         bottom_quartile |-> Frac(7, 2),
         insight_high |-> "healthcare.it_spend_pct_opex.insight_high",
         insight_low |-> "healthcare.it_spend_pct_opex.insight_low",
         insight_aligned |-> "healthcare.it_spend_pct_opex.insight_aligned",
         source |-> "Definitive Healthcare / Avasant"] @@
    "it_budget_yoy_growth" :>
        [top_quartile |-> Num(10), median |-> Num(6),
         bottom_quartile |-> Num(3),
         insight_high |-> "healthcare.it_budget_yoy_growth.insight_high",
         insight_low |-> "healthcare.it_budget_yoy_growth.insight_low",
         insight_aligned |-> "healthcare.it_budget_yoy_growth.insight_aligned",
         source |-> "Gartner HCLS / Guidehouse"] @@
    "it_staff_pct_employees" :>
        [top_quartile |-> Num(1), median |-> Frac(9, 5),
         bottom_quartile |-> Frac(5, 2),
         insight_high |-> "healthcare.it_staff_pct_employees.insight_high",
         insight_low |-> "healthcare.it_staff_pct_employees.insight_low",
         insight_aligned |-> "healthcare.it_staff_pct_employees.insight_aligned",
         source |-> "Avasant / HIMSS"] @@
    "it_staffing_ratio" :>
        [top_quartile |-> Num(50), median |-> Num(60),
         bottom_quartile |-> Num(100),
         insight_high |-> "healthcare.it_staffing_ratio.insight_high",
         insight_low |-> "healthcare.it_staffing_ratio.insight_low",
         insight_aligned |-> "healthcare.it_staffing_ratio.insight_aligned",
         source |-> "HIMSS / GoWorkWize"] @@
    "run_budget_pct" :>
        [top_quartile |-> Num(55), median |-> Num(63),
         bottom_quartile |-> Num(72),
         insight_high |-> "healthcare.run_budget_pct.insight_high",
         insight_low |-> "healthcare.run_budget_pct.insight_low",
         insight_aligned |-> "healthcare.run_budget_pct.insight_aligned",
         source |-> "Gartner RGT Framework"] @@
    "grow_budget_pct" :>
        [top_quartile |-> Num(25), median |-> Num(20),
         bottom_quartile |-> Num(15),
         insight_high |-> "healthcare.grow_budget_pct.insight_high",
         insight_low |-> "healthcare.grow_budget_pct.insight_low",
         insight_aligned |-> "healthcare.grow_budget_pct.insight_aligned",
         source |-> "Gartner RGT Framework"] @@
    "transform_budget_pct" :>
        [top_quartile |-> Num(15), median |-> Num(12),
         bottom_quartile |-> Num(8),
         insight_high |-> "healthcare.transform_budget_pct.insight_high",
         insight_low |-> "healthcare.transform_budget_pct.insight_low",
         insight_aligned |-> "healthcare.transform_budget_pct.insight_aligned",
         source |-> "Gartner RGT Framework / CHIME"] @@
    "cloud_pct_budget" :>
        [top_quartile |-> Num(25), median |-> Num(16),
         bottom_quartile |-> Num(10),
         insight_high |-> "healthcare.cloud_pct_budget.insight_high",
         insight_low |-> "healthcare.cloud_pct_budget.insight_low",
         insight_aligned |-> "healthcare.cloud_pct_budget.insight_aligned",
         source |-> "Nutanix Healthcare ECI / Flexera"] @@
    "cybersecurity_pct_budget" :>
        [top_quartile |-> Num(10), median |-> Num(7),
         bottom_quartile |-> Num(4),
         insight_high |-> "healthcare.cybersecurity_pct_budget.insight_high",
         insight_low |-> "healthcare.cybersecurity_pct_budget.insight_low",
         insight_aligned |-> "healthcare.cybersecurity_pct_budget.insight_aligned",
         source |-> "HIMSS Cybersecurity Survey / IANS Research"] @@
    "it_labor_pct_budget" :>
        [top_quartile |-> Num(40), median |-> Num(48),
         bottom_quartile |-> Num(55),
         insight_high |-> "healthcare.it_labor_pct_budget.insight_high",
         insight_low |-> "healthcare.it_labor_pct_budget.insight_low",
         insight_aligned |-> "healthcare.it_labor_pct_budget.insight_aligned",
         source |-> "Avasant / ISG"] @@
    "outsourcing_pct_budget" :>
        [top_quartile |-> Num(30), median |-> Num(22),
         bottom_quartile |-> Num(15),
         insight_high |-> "healthcare.outsourcing_pct_budget.insight_high",
         insight_low |-> "healthcare.outsourcing_pct_budget.insight_low",
         insight_aligned |-> "healthcare.outsourcing_pct_budget.insight_aligned",
         source |-> "Deloitte GOS / ISG"] @@
    "app_pct_budget" :>
        [top_quartile |-> Num(45), median |-> Num(38),
         bottom_quartile |-> Num(30),
         insight_high |-> "healthcare.app_pct_budget.insight_high",
         insight_low |-> "healthcare.app_pct_budget.insight_low",
         insight_aligned |-> "healthcare.app_pct_budget.insight_aligned",
         source |-> "HG Insights / Bain-KLAS"] @@
    "system_availability" :>
        [top_quartile |-> Frac(9999, 100), median |-> Frac(1999, 20),
         bottom_quartile |-> Frac(999, 10),
         insight_high |-> "healthcare.system_availability.insight_high",
         insight_low |-> "healthcare.system_availability.insight_low",
         insight_aligned |-> "healthcare.system_availability.insight_aligned",
         source |-> "MetricNet / Healthcare SLA standards"] @@
    "it_attrition_rate" :>
        [top_quartile |-> Num(10), median |-> Num(14),
         bottom_quartile |-> Num(18),
         insight_high |-> "healthcare.it_attrition_rate.insight_high",
         insight_low |-> "healthcare.it_attrition_rate.insight_low",
         insight_aligned |-> "healthcare.it_attrition_rate.insight_aligned",
         source |-> "LinkedIn / BLS / BambooHR"] @@
    "helpdesk_cost_per_ticket" :>
        [top_quartile |-> Num(18), median |-> Num(30),
         bottom_quartile |-> Num(45),
         insight_high |-> "healthcare.helpdesk_cost_per_ticket.insight_high",
         insight_low |-> "healthcare.helpdesk_cost_per_ticket.insight_low",
         insight_aligned |-> "healthcare.helpdesk_cost_per_ticket.insight_aligned",
         source |-> "MetricNet / HDI / Medsphere"]

\* INDUSTRY_BENCHMARKS with the median of one band typed as its top quartile.
INDUSTRY_BENCHMARKS_tied ==
    [financial_services |->
        [FinancialServicesBands EXCEPT
            !["it_spend_pct_revenue"].median =
                FinancialServicesBands["it_spend_pct_revenue"].top_quartile],
     healthcare |-> HealthcareBands]

INDUSTRY_BENCHMARKS ==
    "financial_services" :> FinancialServicesBands @@
    "healthcare" :> HealthcareBands

\* Ordered list of metric keys for consistent display.
METRIC_ORDER ==
    << "it_spend_pct_revenue",
       "it_spend_per_employee",
       "it_spend_pct_opex",
       "it_budget_yoy_growth",
       "it_staff_pct_employees",
       "it_staffing_ratio",
       "run_budget_pct",
       "grow_budget_pct",
       "transform_budget_pct",
       "cloud_pct_budget",
       "cybersecurity_pct_budget",
       "it_labor_pct_budget",
       "outsourcing_pct_budget",
       "app_pct_budget",
       "system_availability",
       "it_attrition_rate",
       "helpdesk_cost_per_ticket" >>

CATEGORIES ==
    << "Spend", "Staffing", "Budget Allocation", "Technology Mix",
       "Cost Structure", "Operations" >>

\* The tables as shipped.
Shipped == [kind |-> "shipped"]

\* Tables with rows added or removed (the catalog is extended by editing the
\* two tables only): of the first MaxMetrics metrics, the set defined has a
\* row in METRIC_DEFINITIONS and the set banded a row in each industry of
\* INDUSTRY_BENCHMARKS; the band rows also carry the fields named in shared,
\* which METRIC_DEFINITIONS has too.
CatalogMetrics == { METRIC_ORDER[i] : i \in 1 .. MaxMetrics }

SharedFields == {"unit", "direction"}

EditedCatalogs ==
    [kind : {"edited"}, defined : SUBSET CatalogMetrics,
     banded : SUBSET CatalogMetrics, shared : SUBSET SharedFields]

Catalogs == {Shipped} \cup EditedCatalogs

\* The value a band row gives a field of the definition it shares.
BandValue(definition, field) ==
    IF field = "direction"
    THEN IF definition.direction = "lower_is_better"
         THEN "higher_is_better" ELSE "lower_is_better"
    ELSE "band." \o field

\* The shipped tables after a write through a reference to the row of
\* metric_id in INDUSTRY_BENCHMARKS[ind].
Written(ind, metric_id, field, val) ==
    [kind |-> "written", industry |-> ind, metric_id |-> metric_id,
     field |-> field, value |-> val]

\* The module globals METRIC_DEFINITIONS and INDUSTRY_BENCHMARKS at run time.
metric_definitions ==
    IF catalog.kind \in {"shipped", "written"} THEN METRIC_DEFINITIONS
    ELSE [metric_id \in catalog.defined |-> METRIC_DEFINITIONS[metric_id]]

industry_benchmarks ==
    IF catalog.kind = "shipped" THEN INDUSTRY_BENCHMARKS
    ELSE IF catalog.kind = "written"
    THEN [INDUSTRY_BENCHMARKS EXCEPT
            ![catalog.industry][catalog.metric_id] =
                DictMerge(@, catalog.field :> catalog.value)]
    ELSE [ind \in DOMAIN INDUSTRY_BENCHMARKS |->
            [metric_id \in catalog.banded |->
                DictMerge(INDUSTRY_BENCHMARKS[ind][metric_id],
                          [field \in catalog.shared |->
                              BandValue(METRIC_DEFINITIONS[metric_id], field)])]]

\* get_benchmarks with the merge written {**band, **definition}.
get_benchmarks_definition_wins(ind) ==
    LET industry_data == Get(industry_benchmarks, ind, EmptyDict)
        kept == { metric_id \in DOMAIN metric_definitions :
                    metric_id \in DOMAIN industry_data }
    IN  [metric_id \in kept |->
            DictMerge(industry_data[metric_id], metric_definitions[metric_id])]

\* get_benchmarks falling back to financial_services for an unknown industry.
get_benchmarks_fallback(ind) ==
    LET industry_data == Get(industry_benchmarks, ind,
                             industry_benchmarks["financial_services"])
        kept == { metric_id \in DOMAIN metric_definitions :
                    metric_id \in DOMAIN industry_data }
    IN  [metric_id \in kept |->
            DictMerge(metric_definitions[metric_id], industry_data[metric_id])]

get_benchmarks(ind) ==
    LET industry_data == Get(industry_benchmarks, ind, EmptyDict)
        kept == { metric_id \in DOMAIN metric_definitions :
                    metric_id \in DOMAIN industry_data }
    IN  [metric_id \in kept |->
            DictMerge(metric_definitions[metric_id], industry_data[metric_id])]

---------------------------------------------------------------------------
(* Raw inputs of an analysis.                                              *)

\* Python's None, stored by the input form for a direct field left empty.
None == [none |-> TRUE]

RatioFields ==
    {"revenue", "total_employees", "it_budget", "it_budget_prior_year",
     "it_ftes", "total_opex", "cloud_spend", "cybersecurity_spend",
     "it_labor_cost", "outsourcing_spend", "application_spend",
     "infrastructure_spend"}

DirectFields ==
    {"run_pct", "grow_pct", "transform_pct", "system_availability",
     "it_attrition_rate", "helpdesk_cost_per_ticket"}

Fields == RatioFields \cup DirectFields

\* A financial-services firm with every field filled in.
FullProfile ==
    [revenue |-> Num(10000000), total_employees |-> Num(20),
     it_budget |-> Num(700000), it_budget_prior_year |-> Num(660000),
     it_ftes |-> Num(2), total_opex |-> Num(6000000),
     cloud_spend |-> Num(210000), cybersecurity_spend |-> Num(70000),
     it_labor_cost |-> Num(280000), outsourcing_spend |-> Num(140000),
     application_spend |-> Num(300000), infrastructure_spend |-> Num(200000),
     run_pct |-> Num(67), grow_pct |-> Num(22), transform_pct |-> Num(11),
     system_availability |-> Frac(9995, 100), it_attrition_rate |-> Num(15),
     helpdesk_cost_per_ticket |-> Num(22)]

\* Marks a field to be left out of the mapping.
Absent == [absent |-> TRUE]

\* What a field is changed to: left out or filled in, zero, or negative (a
\* ratio field) / None (a direct field).
Options(f) ==
    {Absent, FullProfile[f], Num(0)}
      \cup (IF f \in DirectFields THEN {None} ELSE {FNeg(FullProfile[f])})

Change(m, f, v) ==
    IF v = Absent THEN [g \in DOMAIN m \ {f} |-> m[g]]
    ELSE [g \in DOMAIN m \cup {f} |-> IF g = f THEN v ELSE m[g]]

FieldOptions == UNION { { <<f, v>> : v \in Options(f) } : f \in Fields }

\* The mappings at most k changed fields away from the mapping base.
RECURSIVE Changed(_, _)
Changed(base, k) ==
    IF k = 0 THEN {base}
    ELSE LET prev == Changed(base, k - 1)
         IN  prev \cup { Change(m, fv[1], fv[2]) : m \in prev, fv \in FieldOptions }

RawInputs == Changed(EmptyDict, MaxChanges) \cup Changed(FullProfile, MaxChanges)

\* Two industries of the catalog and one it does not know.
IndustryArgs == {"financial_services", "healthcare", "retail"}

---------------------------------------------------------------------------
(* src/analysis/engine.py                                                  *)

\* get_quartile_position with one comparison changed, for the mutation checks:
\*   "strict"        every <= / >= written < / >
\*   "bottom_closed" the bottom_quartile threshold itself put in bottom_quartile
\*   "median_open"   the median itself put in below_median
QuartileVariant(b, v, bug) ==
    LET s == IF b.direction = "lower_is_better" THEN 1 ELSE -1
        x == FMul(Num(s), v)
        tq == FMul(Num(s), b.top_quartile)
        med == FMul(Num(s), b.median)
        bq == FMul(Num(s), b.bottom_quartile)
    IN  IF (IF bug = "strict" THEN FLt(x, tq) ELSE FLe(x, tq)) THEN "top_quartile"
        ELSE IF (IF bug \in {"strict", "median_open"} THEN FLt(x, med) ELSE FLe(x, med))
             THEN "above_median"
        ELSE IF (IF bug \in {"strict", "bottom_closed"} THEN FLt(x, bq) ELSE FLe(x, bq))
             THEN "below_median"
        ELSE "bottom_quartile"

get_quartile_position_strict(b, v) == QuartileVariant(b, v, "strict")

get_quartile_position_bottom_closed(b, v) == QuartileVariant(b, v, "bottom_closed")

get_quartile_position_median_open(b, v) == QuartileVariant(b, v, "median_open")

get_quartile_position(b, v) ==
    LET tq == b.top_quartile
        med == b.median
        bq == b.bottom_quartile
    IN  IF b.direction = "lower_is_better"
        THEN IF FLe(v, tq) THEN "top_quartile"
             ELSE IF FLe(v, med) THEN "above_median"
             ELSE IF FLe(v, bq) THEN "below_median"
             ELSE "bottom_quartile"
        ELSE IF FGe(v, tq) THEN "top_quartile"
             ELSE IF FGe(v, med) THEN "above_median"
             ELSE IF FGe(v, bq) THEN "below_median"
             ELSE "bottom_quartile"

\* The value returned and the source line of the return statement taken.
Ret(x, line) == [ret |-> x, line |-> line]

\* normalize_score with one slip, for the mutation checks:
\*   "swapped_direction" the direction test inverted
\*   "pasted_range"      the upper segment divided by the lower segment's width
\*   "inverted_upper"    the upper segment interpolated down from 100
\*   "reversed_lower"    the lower segment interpolated from the median up
\*   "inverted_guard"    the midpoint returned when the width is not zero
\*   "strict"            the two extreme tests written < / >
\*   "unclamped"         the two extreme tests left out
ScoreVariant(b, v, bug) ==
    LET low == (b.direction = "lower_is_better") # (bug = "swapped_direction")
        s == IF low THEN 1 ELSE -1
        x == FMul(Num(s), v)
        tq == FMul(Num(s), b.top_quartile)
        med == FMul(Num(s), b.median)
        bq == FMul(Num(s), b.bottom_quartile)
        L(lo, hi) == IF low THEN lo ELSE hi
        zero(r) == IF bug = "inverted_guard" THEN r # Num(0) ELSE r = Num(0)
    IN  IF bug # "unclamped"
           /\ (IF bug = "strict" THEN FLt(x, tq) ELSE FLe(x, tq))
        THEN Ret(Num(100), L(124, 139))
        ELSE IF bug # "unclamped"
                /\ (IF bug = "strict" THEN FGt(x, bq) ELSE FGe(x, bq))
        THEN Ret(Num(0), L(126, 141))
        ELSE IF FLe(x, med)
             THEN LET range_val == FSub(med, tq)
                      divisor == IF bug = "pasted_range" THEN FSub(bq, med) ELSE range_val
                  IN  IF zero(range_val) THEN Ret(Num(75), L(130, 145))
                      ELSE IF bug = "inverted_upper"
                           THEN Ret(FAdd(Num(100),
                                         FDiv(FMul(Num(-50), FSub(med, x)),
                                              divisor)), L(131, 146))
                           ELSE Ret(FAdd(Num(50),
                                         FDiv(FMul(Num(50), FSub(med, x)),
                                              divisor)), L(131, 146))
             ELSE LET range_val == FSub(bq, med)
                  IN  IF zero(range_val) THEN Ret(Num(25), L(135, 150))
                      ELSE IF bug = "reversed_lower"
                           THEN Ret(FDiv(FMul(Num(50), FSub(x, med)),
                                         range_val), L(136, 151))
                           ELSE Ret(FDiv(FMul(Num(50), FSub(bq, x)),
                                         range_val), L(136, 151))

normalize_score_swapped_direction(b, v) == ScoreVariant(b, v, "swapped_direction")

normalize_score_pasted_range(b, v) == ScoreVariant(b, v, "pasted_range")

normalize_score_inverted_upper(b, v) == ScoreVariant(b, v, "inverted_upper")

normalize_score_reversed_lower(b, v) == ScoreVariant(b, v, "reversed_lower")

normalize_score_inverted_guard(b, v) == ScoreVariant(b, v, "inverted_guard")

normalize_score_strict(b, v) == ScoreVariant(b, v, "strict")

normalize_score_unclamped(b, v) == ScoreVariant(b, v, "unclamped")

normalize_score(b, v) ==
    LET tq == b.top_quartile
        med == b.median
        bq == b.bottom_quartile
    IN  IF b.direction = "lower_is_better"
        THEN IF FLe(v, tq) THEN Ret(Num(100), 124)
             ELSE IF FGe(v, bq) THEN Ret(Num(0), 126)
             ELSE IF FLe(v, med)
                  THEN LET range_val == FSub(med, tq)
                       IN  IF range_val = Num(0) THEN Ret(Num(75), 130)
                           ELSE Ret(FAdd(Num(50),
                                         FDiv(FMul(Num(50), FSub(med, v)),
                                              range_val)), 131)
                  ELSE LET range_val == FSub(bq, med)
                       IN  IF range_val = Num(0) THEN Ret(Num(25), 135)
                           ELSE Ret(FDiv(FMul(Num(50), FSub(bq, v)),
                                         range_val), 136)
        ELSE IF FGe(v, tq) THEN Ret(Num(100), 139)
             ELSE IF FLe(v, bq) THEN Ret(Num(0), 141)
             ELSE IF FGe(v, med)
                  THEN LET range_val == FSub(tq, med)
                       IN  IF range_val = Num(0) THEN Ret(Num(75), 145)
                           ELSE Ret(FAdd(Num(50),
                                         FDiv(FMul(Num(50), FSub(v, med)),
                                              range_val)), 146)
                  ELSE LET range_val == FSub(med, bq)
                       IN  IF range_val = Num(0) THEN Ret(Num(25), 150)
                           ELSE Ret(FDiv(FMul(Num(50), FSub(v, bq)),
                                         range_val), 151)

\* get_insight with the two text fields exchanged.
get_insight_swapped(b, q) ==
    IF q \in {"top_quartile", "above_median"}
    THEN IF b.direction = "lower_is_better"
         THEN b.insight_high
         ELSE b.insight_low
    ELSE IF q \in {"bottom_quartile", "below_median"}
    THEN IF b.direction = "lower_is_better"
         THEN b.insight_low
         ELSE b.insight_high
    ELSE b.insight_aligned

\* get_insight giving the aligned text to the two buckets next to the median.
get_insight_median_aligned(b, q) ==
    IF q = "top_quartile"
    THEN IF b.direction = "lower_is_better"
         THEN b.insight_low
         ELSE b.insight_high
    ELSE IF q = "bottom_quartile"
    THEN IF b.direction = "lower_is_better"
         THEN b.insight_high
         ELSE b.insight_low
    ELSE b.insight_aligned

get_insight(b, q) ==
    IF q \in {"top_quartile", "above_median"}
    THEN IF b.direction = "lower_is_better"
         THEN b.insight_low
         ELSE b.insight_high
    ELSE IF q \in {"bottom_quartile", "below_median"}
    THEN IF b.direction = "lower_is_better"
         THEN b.insight_high
         ELSE b.insight_low
    ELSE b.insight_aligned

\* get_delta_vs_median without the median != 0 test.
get_delta_vs_median_unguarded(b, v) ==
    LET med == b.median
        delta == FSub(v, med)
    IN  [delta |-> delta, delta_pct |-> FMul(FDiv(delta, med), Num(100))]

\* get_delta_vs_median with the delta taken in the band's favourable direction.
get_delta_vs_median_directed(b, v) ==
    LET med == b.median
        delta == IF b.direction = "lower_is_better" THEN FSub(med, v) ELSE FSub(v, med)
        delta_pct == IF med # Num(0) THEN FMul(FDiv(delta, med), Num(100)) ELSE Num(0)
    IN  [delta |-> delta, delta_pct |-> delta_pct]

get_delta_vs_median(b, v) ==
    LET med == b.median
        delta == FSub(v, med)
        delta_pct == IF med # Num(0) THEN FMul(FDiv(delta, med), Num(100)) ELSE Num(0)
    IN  [delta |-> delta, delta_pct |-> delta_pct]

\* get_delta_vs_median not called yet.
NoDelta == [delta |-> ZeroDivisionError, delta_pct |-> ZeroDivisionError]

\* One entry results[key] = value, or none when the guard fails.
Entry(guard, key, val) == IF guard THEN key :> val ELSE EmptyDict

\* compute_derived_metrics with one slip, for the mutation checks:
\*   "nonnegative_guard"  every guard written >= 0
\*   "staffing_guard"     it_staffing_ratio guarded by total_employees > 0 too
\*   "default_zero"       the direct fields read with a default of 0
\*   "ungated_app"        app_pct_budget computed outside the it_budget guard
DerivedVariant(data, bug) ==
    LET revenue == Get(data, "revenue", Num(0))
        total_employees == Get(data, "total_employees", Num(0))
        it_budget == Get(data, "it_budget", Num(0))
        it_budget_prior == Get(data, "it_budget_prior_year", Num(0))
        it_ftes == Get(data, "it_ftes", Num(0))
        total_opex == Get(data, "total_opex", Num(0))
        cloud_spend == Get(data, "cloud_spend", Num(0))
        cyber_spend == Get(data, "cybersecurity_spend", Num(0))
        labor_cost == Get(data, "it_labor_cost", Num(0))
        outsourcing_spend == Get(data, "outsourcing_spend", Num(0))
        app_spend == Get(data, "application_spend", Num(0))
        infra_spend == Get(data, "infrastructure_spend", Num(0))
        total_app_infra == FAdd(app_spend, infra_spend)
        Pos(x) == IF bug = "nonnegative_guard" THEN FGe(x, Num(0)) ELSE FGt(x, Num(0))
        default == IF bug = "default_zero" THEN Num(0) ELSE None
        res ==
            Entry(Pos(revenue), "it_spend_pct_revenue",
                  FMul(FDiv(it_budget, revenue), Num(100))) @@
            Entry(Pos(total_employees), "it_spend_per_employee",
                  FDiv(it_budget, total_employees)) @@
            Entry(Pos(total_opex), "it_spend_pct_opex",
                  FMul(FDiv(it_budget, total_opex), Num(100))) @@
            Entry(Pos(it_budget_prior), "it_budget_yoy_growth",
                  FMul(FDiv(FSub(it_budget, it_budget_prior), it_budget_prior),
                       Num(100))) @@
            Entry(Pos(total_employees), "it_staff_pct_employees",
                  FMul(FDiv(it_ftes, total_employees), Num(100))) @@
            Entry(Pos(it_ftes)
                    /\ (bug = "staffing_guard" => Pos(total_employees)),
                  "it_staffing_ratio", FDiv(total_employees, it_ftes)) @@
            Entry(TRUE, "run_budget_pct", Get(data, "run_pct", default)) @@
            Entry(TRUE, "grow_budget_pct", Get(data, "grow_pct", default)) @@
            Entry(TRUE, "transform_budget_pct", Get(data, "transform_pct", default)) @@
            Entry(Pos(it_budget), "cloud_pct_budget",
                  FMul(FDiv(cloud_spend, it_budget), Num(100))) @@
            Entry(Pos(it_budget), "cybersecurity_pct_budget",
                  FMul(FDiv(cyber_spend, it_budget), Num(100))) @@
            Entry(Pos(it_budget), "it_labor_pct_budget",
                  FMul(FDiv(labor_cost, it_budget), Num(100))) @@
            Entry(Pos(it_budget), "outsourcing_pct_budget",
                  FMul(FDiv(outsourcing_spend, it_budget), Num(100))) @@
            Entry((bug = "ungated_app" \/ Pos(it_budget)) /\ Pos(total_app_infra),
                  "app_pct_budget",
                  FMul(FDiv(app_spend, total_app_infra), Num(100))) @@
            Entry(TRUE, "system_availability",
                  Get(data, "system_availability", default)) @@
            Entry(TRUE, "it_attrition_rate", Get(data, "it_attrition_rate", default)) @@
            Entry(TRUE, "helpdesk_cost_per_ticket",
                  Get(data, "helpdesk_cost_per_ticket", default))
    IN  [k \in { k \in DOMAIN res : res[k] # None } |-> res[k]]

compute_derived_metrics_nonnegative_guard(data) ==
    DerivedVariant(data, "nonnegative_guard")

compute_derived_metrics_staffing_guard(data) ==
    DerivedVariant(data, "staffing_guard")

compute_derived_metrics_default_zero(data) == DerivedVariant(data, "default_zero")

compute_derived_metrics_ungated_app(data) == DerivedVariant(data, "ungated_app")

compute_derived_metrics(data) ==
    LET revenue == Get(data, "revenue", Num(0))
        total_employees == Get(data, "total_employees", Num(0))
        it_budget == Get(data, "it_budget", Num(0))
        it_budget_prior == Get(data, "it_budget_prior_year", Num(0))
        it_ftes == Get(data, "it_ftes", Num(0))
        total_opex == Get(data, "total_opex", Num(0))
        cloud_spend == Get(data, "cloud_spend", Num(0))
        cyber_spend == Get(data, "cybersecurity_spend", Num(0))
        labor_cost == Get(data, "it_labor_cost", Num(0))
        outsourcing_spend == Get(data, "outsourcing_spend", Num(0))
        app_spend == Get(data, "application_spend", Num(0))
        infra_spend == Get(data, "infrastructure_spend", Num(0))
        total_app_infra == FAdd(app_spend, infra_spend)
        res ==
            Entry(FGt(revenue, Num(0)), "it_spend_pct_revenue",
                  FMul(FDiv(it_budget, revenue), Num(100))) @@
            Entry(FGt(total_employees, Num(0)), "it_spend_per_employee",
                  FDiv(it_budget, total_employees)) @@
            Entry(FGt(total_opex, Num(0)), "it_spend_pct_opex",
                  FMul(FDiv(it_budget, total_opex), Num(100))) @@
            Entry(FGt(it_budget_prior, Num(0)), "it_budget_yoy_growth",
                  FMul(FDiv(FSub(it_budget, it_budget_prior), it_budget_prior),
                       Num(100))) @@
            Entry(FGt(total_employees, Num(0)), "it_staff_pct_employees",
                  FMul(FDiv(it_ftes, total_employees), Num(100))) @@
            Entry(FGt(it_ftes, Num(0)), "it_staffing_ratio",
                  FDiv(total_employees, it_ftes)) @@
            Entry(TRUE, "run_budget_pct", Get(data, "run_pct", None)) @@
            Entry(TRUE, "grow_budget_pct", Get(data, "grow_pct", None)) @@
            Entry(TRUE, "transform_budget_pct", Get(data, "transform_pct", None)) @@
            Entry(FGt(it_budget, Num(0)), "cloud_pct_budget",
                  FMul(FDiv(cloud_spend, it_budget), Num(100))) @@
            Entry(FGt(it_budget, Num(0)), "cybersecurity_pct_budget",
                  FMul(FDiv(cyber_spend, it_budget), Num(100))) @@
            Entry(FGt(it_budget, Num(0)), "it_labor_pct_budget",
                  FMul(FDiv(labor_cost, it_budget), Num(100))) @@
            Entry(FGt(it_budget, Num(0)), "outsourcing_pct_budget",
                  FMul(FDiv(outsourcing_spend, it_budget), Num(100))) @@
            Entry(FGt(it_budget, Num(0)) /\ FGt(total_app_infra, Num(0)),
                  "app_pct_budget",
                  FMul(FDiv(app_spend, total_app_infra), Num(100))) @@
            Entry(TRUE, "system_availability",
                  Get(data, "system_availability", None)) @@
            Entry(TRUE, "it_attrition_rate", Get(data, "it_attrition_rate", None)) @@
            Entry(TRUE, "helpdesk_cost_per_ticket",
                  Get(data, "helpdesk_cost_per_ticket", None))
    IN  \* Strip None values
        [k \in { k \in DOMAIN res : res[k] # None } |-> res[k]]

\* The record run_full_analysis appends for one metric.
MetricResult(metric_id, b, v) ==
    LET q == get_quartile_position(b, v)
        sc == normalize_score(b, v).ret
        delta == get_delta_vs_median(b, v)
        ins == get_insight(b, q)
    IN  [metric_id |-> metric_id, name |-> b.name, category |-> b.category,
         unit |-> b.unit, format |-> b.format, value |-> v,
         top_quartile |-> b.top_quartile, median |-> b.median,
         bottom_quartile |-> b.bottom_quartile, direction |-> b.direction,
         quartile |-> q, score |-> sc, delta |-> delta.delta,
         delta_pct |-> delta.delta_pct, insight |-> ins, source |-> b.source]

Reverse(seq) == [i \in 1 .. Len(seq) |-> seq[Len(seq) + 1 - i]]

\* run_full_analysis walking METRIC_ORDER from its end.
run_full_analysis_reversed(data, ind) ==
    LET bms == get_benchmarks(ind)
        drv == compute_derived_metrics(data)
        Both(metric_id) == metric_id \in DOMAIN drv /\ metric_id \in DOMAIN bms
        kept == SelectSeq(Reverse(METRIC_ORDER), Both)
    IN  [i \in 1 .. Len(kept) |-> MetricResult(kept[i], bms[kept[i]], drv[kept[i]])]

\* run_full_analysis reading a metric missing from the derived values as 0.
run_full_analysis_unskipped(data, ind) ==
    LET bms == get_benchmarks(ind)
        drv == compute_derived_metrics(data)
        Banded(metric_id) == metric_id \in DOMAIN bms
        kept == SelectSeq(METRIC_ORDER, Banded)
    IN  [i \in 1 .. Len(kept) |->
            MetricResult(kept[i], bms[kept[i]], Get(drv, kept[i], Num(0)))]

run_full_analysis(data, ind) ==
    LET bms == get_benchmarks(ind)
        drv == compute_derived_metrics(data)
        Both(metric_id) == metric_id \in DOMAIN drv /\ metric_id \in DOMAIN bms
        kept == SelectSeq(METRIC_ORDER, Both)
    IN  [i \in 1 .. Len(kept) |-> MetricResult(kept[i], bms[kept[i]], drv[kept[i]])]

\* get_summary_stats with one slip, for the mutation checks:
\*   "unguarded"    the empty list not returned early
\*   "overlapping"  top_q counting above_median records as well
SummaryVariant(rs, bug) ==
    LET total == Len(rs)
        Count(label) == Cardinality({ i \in DOMAIN rs : rs[i].quartile = label })
    IN  IF total = 0 /\ bug # "unguarded"
        THEN [total |-> 0, top_q |-> 0, above_med |-> 0, below_med |-> 0,
              bottom_q |-> 0, avg_score |-> Num(0)]
        ELSE [total |-> total,
              top_q |-> Count("top_quartile")
                          + (IF bug = "overlapping" THEN Count("above_median") ELSE 0),
              above_med |-> Count("above_median"),
              below_med |-> Count("below_median"),
              bottom_q |-> Count("bottom_quartile"),
              avg_score |-> FDiv(Sum([i \in DOMAIN rs |-> rs[i].score]), Num(total))]

get_summary_stats_unguarded(rs) == SummaryVariant(rs, "unguarded")

get_summary_stats_overlapping(rs) == SummaryVariant(rs, "overlapping")

get_summary_stats(rs) ==
    LET total == Len(rs)
        Count(label) == Cardinality({ i \in DOMAIN rs : rs[i].quartile = label })
    IN  IF total = 0
        THEN [total |-> 0, top_q |-> 0, above_med |-> 0, below_med |-> 0,
              bottom_q |-> 0, avg_score |-> Num(0)]
        ELSE [total |-> total,
              top_q |-> Count("top_quartile"),
              above_med |-> Count("above_median"),
              below_med |-> Count("below_median"),
              bottom_q |-> Count("bottom_quartile"),
              avg_score |-> FDiv(Sum([i \in DOMAIN rs |-> rs[i].score]), Num(total))]

\* get_summary_stats not called yet.
NoSummary == [total |-> -1]

---------------------------------------------------------------------------
(* The parts of the state a state machine does not use.                    *)

NoReport == summary = NoSummary /\ summarized = <<>>

NoThreads == threads = <<>> /\ heap = <<>>

NoEvent == [kind |-> "none"]

NotCleared == [done |-> FALSE, removed |-> {}]

NoSession == session = EmptyDict /\ last_event = NoEvent /\ cleared = NotCleared

---------------------------------------------------------------------------
(* The state machine: one (band, value) pair, each function applied to it. *)

Init ==
    /\ bench \in Bands
    /\ value \in ValuesOf(bench)
    /\ quartile = "none"
    /\ score = ZeroDivisionError
    /\ score_line = 0
    /\ insight = "none"
    /\ insight_arg = "none"
    /\ delta_result = NoDelta
    /\ catalog = Shipped
    /\ client_data = EmptyDict
    /\ industry = "financial_services"
    /\ derived = EmptyDict
    /\ benchmarks = EmptyDict
    /\ results = <<>>
    /\ calls = {}
    /\ shared_entries = {}
    /\ NoReport /\ NoThreads /\ NoSession

CallQuartile ==
    /\ quartile' = get_quartile_position(bench, value)
    /\ UNCHANGED <<bench, value, score, score_line, insight, insight_arg,
                   delta_result>>
    /\ UNCHANGED <<catalog_vars, analysis_vars, report_vars, thread_vars,
                   session_vars>>

CallScore ==
    /\ score' = normalize_score(bench, value).ret
    /\ score_line' = normalize_score(bench, value).line
    /\ UNCHANGED <<bench, value, quartile, insight, insight_arg, delta_result>>
    /\ UNCHANGED <<catalog_vars, analysis_vars, report_vars, thread_vars,
                   session_vars>>

CallInsight ==
    \E q \in QuartileArgs :
        /\ insight' = get_insight(bench, q)
        /\ insight_arg' = q
        /\ UNCHANGED <<bench, value, quartile, score, score_line, delta_result>>
        /\ UNCHANGED <<catalog_vars, analysis_vars, report_vars, thread_vars,
                       session_vars>>

CallDelta ==
    /\ delta_result' = get_delta_vs_median(bench, value)
    /\ UNCHANGED <<bench, value, quartile, score, score_line, insight, insight_arg>>
    /\ UNCHANGED <<catalog_vars, analysis_vars, report_vars, thread_vars,
                   session_vars>>

Next == CallQuartile \/ CallScore \/ CallInsight \/ CallDelta

Spec == Init /\ [][Next]_vars

---------------------------------------------------------------------------
(* The state machine of one analysis: raw inputs and an industry, the       *)
(* shipped catalog, and the engine functions called on them in any order.   *)

\* get_benchmarks returning the catalog's own rows, filled in place.
CallGetBenchmarksInPlace ==
    /\ "get_benchmarks" \notin calls
    /\ benchmarks' = get_benchmarks(industry)
    /\ calls' = calls \cup {"get_benchmarks"}
    /\ shared_entries' = DOMAIN get_benchmarks(industry)
    /\ UNCHANGED <<client_data, industry, derived, results>>
    /\ UNCHANGED <<catalog_vars, positioning_vars, report_vars, thread_vars,
                   session_vars>>

InitAnalysis ==
    /\ catalog = Shipped
    /\ client_data \in RawInputs
    /\ industry \in IndustryArgs
    /\ derived = EmptyDict
    /\ benchmarks = EmptyDict
    /\ results = <<>>
    /\ calls = {}
    /\ shared_entries = {}
    /\ NoReport /\ NoThreads /\ NoSession
    /\ bench = ItSpendPctRevenueBand
    /\ value = Num(7)
    /\ quartile = "none"
    /\ score = ZeroDivisionError
    /\ score_line = 0
    /\ insight = "none"
    /\ insight_arg = "none"
    /\ delta_result = NoDelta

CallGetBenchmarks ==
    /\ "get_benchmarks" \notin calls
    /\ benchmarks' = get_benchmarks(industry)
    /\ calls' = calls \cup {"get_benchmarks"}
    /\ shared_entries' = {}
    /\ UNCHANGED <<client_data, industry, derived, results>>
    /\ UNCHANGED <<catalog_vars, positioning_vars, report_vars, thread_vars,
                   session_vars>>

CallComputeDerivedMetrics ==
    /\ "compute_derived_metrics" \notin calls
    /\ derived' = compute_derived_metrics(client_data)
    /\ calls' = calls \cup {"compute_derived_metrics"}
    /\ UNCHANGED <<client_data, industry, benchmarks, results, shared_entries>>
    /\ UNCHANGED <<catalog_vars, positioning_vars, report_vars, thread_vars,
                   session_vars>>

CallRunFullAnalysis ==
    /\ "run_full_analysis" \notin calls
    /\ results' = run_full_analysis(client_data, industry)
    /\ calls' = calls \cup {"run_full_analysis"}
    /\ UNCHANGED <<client_data, industry, derived, benchmarks, shared_entries>>
    /\ UNCHANGED <<catalog_vars, positioning_vars, report_vars, thread_vars,
                   session_vars>>

NextAnalysis ==
    CallGetBenchmarks \/ CallComputeDerivedMetrics \/ CallRunFullAnalysis

SpecAnalysis == InitAnalysis /\ [][NextAnalysis]_vars

---------------------------------------------------------------------------
(* The state machine of one report: the analysis and the summary of a list  *)
(* of records, as the results page calls them (pages/2_results.py).        *)

CallGetSummaryStats ==
    /\ "get_summary_stats" \notin calls
    /\ summary' = get_summary_stats(results)
    /\ summarized' = results
    /\ calls' = calls \cup {"get_summary_stats"}
    /\ UNCHANGED <<client_data, industry, derived, benchmarks, results,
                   shared_entries>>
    /\ UNCHANGED <<catalog_vars, positioning_vars, thread_vars, session_vars>>

NextReport == CallRunFullAnalysis \/ CallGetSummaryStats

SpecReport == InitAnalysis /\ [][NextReport]_vars

---------------------------------------------------------------------------
(* The state machine of one analysis of the full profile on a catalog with  *)
(* rows added or removed.                                                  *)

InitCatalog ==
    /\ catalog \in Catalogs
    /\ client_data = FullProfile
    /\ industry \in IndustryArgs
    /\ derived = EmptyDict
    /\ benchmarks = EmptyDict
    /\ results = <<>>
    /\ calls = {}
    /\ shared_entries = {}
    /\ NoReport /\ NoThreads /\ NoSession
    /\ bench = ItSpendPctRevenueBand
    /\ value = Num(7)
    /\ quartile = "none"
    /\ score = ZeroDivisionError
    /\ score_line = 0
    /\ insight = "none"
    /\ insight_arg = "none"
    /\ delta_result = NoDelta

SpecCatalog == InitCatalog /\ [][NextAnalysis]_vars

---------------------------------------------------------------------------
(* The state machine of a caller: the four core functions called in any     *)
(* order, and the caller writing to an entry of the mapping get_benchmarks *)
(* returned.                                                               *)

InitCaller ==
    /\ catalog = Shipped
    /\ client_data \in {EmptyDict, FullProfile}
    /\ industry \in IndustryArgs
    /\ derived = EmptyDict
    /\ benchmarks = EmptyDict
    /\ results = <<>>
    /\ calls = {}
    /\ shared_entries = {}
    /\ NoReport /\ NoThreads /\ NoSession
    /\ bench = ItSpendPctRevenueBand
    /\ value = Num(7)
    /\ quartile = "none"
    /\ score = ZeroDivisionError
    /\ score_line = 0
    /\ insight = "none"
    /\ insight_arg = "none"
    /\ delta_result = NoDelta

\* The caller assigns to a field of an entry of the returned mapping; the
\* catalog sees the write only if the entry is one of its own rows.
CallerWritesEntry ==
    /\ "get_benchmarks" \in calls
    /\ "write" \notin calls
    /\ \E metric_id \in DOMAIN benchmarks :
          /\ benchmarks' = [benchmarks EXCEPT ![metric_id].median = Num(0)]
          /\ catalog' = IF metric_id \in shared_entries
                        THEN Written(industry, metric_id, "median", Num(0))
                        ELSE catalog
    /\ calls' = calls \cup {"write"}
    /\ UNCHANGED <<client_data, industry, derived, results, shared_entries>>
    /\ UNCHANGED <<positioning_vars, report_vars, thread_vars, session_vars>>

NextCaller ==
    \/ CallGetBenchmarks
    \/ CallComputeDerivedMetrics
    \/ CallRunFullAnalysis
    \/ CallGetSummaryStats
    \/ CallerWritesEntry

SpecCaller == InitCaller /\ [][NextCaller]_vars

---------------------------------------------------------------------------
(* The state machine of one browser session: reruns of the page scripts on *)
(* form submissions, Clear Data clicks and page visits.                    *)

INDUSTRIES ==
    [financial_services |->
        [name |-> "Financial Services",
         sub_verticals |-> <<"Banking", "Insurance", "Asset Management",
                             "Fintech", "Other">>],
     healthcare |->
        [name |-> "Healthcare",
         sub_verticals |-> <<"Hospital / Health System", "Health Plan / Payer",
                             "Physician Practice", "Life Sciences", "Other">>]]

\* What the user has entered when pressing the submit button: the required
\* fields empty / zero or filled in, the selected industry, and two of the
\* optional fields.  The other widgets stay at their defaults.
Forms ==
    [company_name : {"", "Acme"},
     revenue : {Num(0), Num(10000000)},
     total_employees : {Num(0), Num(20)},
     it_budget : {Num(0), Num(700000)},
     industry : DOMAIN INDUSTRIES,
     run_pct : {Num(0), Num(67)},
     it_ftes : {Num(0), Num(2)}]

\* The validation with the IT budget test left out.
FormErrors_budget_unchecked(form) ==
    (IF form.company_name = "" THEN {"Company name is required."} ELSE {})
      \cup (IF FLe(form.revenue, Num(0))
            THEN {"Revenue must be greater than 0."} ELSE {})
      \cup (IF FLe(form.total_employees, Num(0))
            THEN {"Total employees must be greater than 0."} ELSE {})

FormErrors(form) ==
    (IF form.company_name = "" THEN {"Company name is required."} ELSE {})
      \cup (IF FLe(form.revenue, Num(0))
            THEN {"Revenue must be greater than 0."} ELSE {})
      \cup (IF FLe(form.total_employees, Num(0))
            THEN {"Total employees must be greater than 0."} ELSE {})
      \cup (IF FLe(form.it_budget, Num(0))
            THEN {"IT budget must be greater than 0."} ELSE {})

PositiveOrNone(x) == IF FGt(x, Num(0)) THEN x ELSE None

\* The client_data dict built from an accepted form.
ClientData(form) ==
    [company_name |-> form.company_name,
     industry |-> form.industry,
     industry_name |-> INDUSTRIES[form.industry].name,
     sub_vertical |-> INDUSTRIES[form.industry].sub_verticals[1],
     revenue |-> form.revenue,
     total_employees |-> form.total_employees,
     it_budget |-> form.it_budget,
     it_budget_prior_year |-> Num(0),
     total_opex |-> Num(0),
     cloud_spend |-> Num(0),
     cybersecurity_spend |-> Num(0),
     it_labor_cost |-> Num(0),
     outsourcing_spend |-> Num(0),
     application_spend |-> Num(0),
     infrastructure_spend |-> Num(0),
     run_pct |-> PositiveOrNone(form.run_pct),
     grow_pct |-> PositiveOrNone(Num(0)),
     transform_pct |-> PositiveOrNone(Num(0)),
     it_ftes |-> form.it_ftes,
     system_availability |-> Frac(9995, 100),
     helpdesk_cost_per_ticket |-> PositiveOrNone(Num(0)),
     it_attrition_rate |-> PositiveOrNone(Num(0))]

\* session_state.pop(key, None) for every key of keys.
Pop(state, keys) == [key \in DOMAIN state \ keys |-> state[key]]

\* Clear Data forgetting the stored results.
ClearedKeys_without_results == {"client_data", "analysis_run"}

ClearedKeys == {"client_data", "analysis_run", "analysis_results"}

\* Python truth of session_state.get(key) for the keys client_data and
\* analysis_run: what is stored under them is a non-empty dict and True.
Truthy(state, key) == key \in DOMAIN state

Event(kind, accepted, analysed) ==
    [kind |-> kind, accepted |-> accepted, analysed |-> analysed,
     before |-> session]

InitSession ==
    /\ session = EmptyDict
    /\ last_event = NoEvent
    /\ cleared = NotCleared
    /\ catalog = Shipped
    /\ client_data = EmptyDict
    /\ industry = "financial_services"
    /\ derived = EmptyDict
    /\ benchmarks = EmptyDict
    /\ results = <<>>
    /\ calls = {}
    /\ shared_entries = {}
    /\ NoReport /\ NoThreads
    /\ bench = ItSpendPctRevenueBand
    /\ value = Num(7)
    /\ quartile = "none"
    /\ score = ZeroDivisionError
    /\ score_line = 0
    /\ insight = "none"
    /\ insight_arg = "none"
    /\ delta_result = NoDelta

\* The submit button of the client input form.
Submit ==
    /\ \E form \in Forms :
          IF FormErrors(form) # {}
          THEN /\ session' = session
               /\ last_event' = Event("submit", FALSE, FALSE)
               /\ cleared' = cleared
          ELSE /\ session' = DictMerge(session,
                                 [client_data |-> ClientData(form),
                                  analysis_run |-> TRUE])
               /\ last_event' = Event("submit", TRUE, FALSE)
               /\ cleared' = NotCleared
    /\ UNCHANGED <<catalog_vars, positioning_vars, analysis_vars, report_vars,
                   thread_vars>>

\* The Clear Data button of the sidebar, shown while client_data is set.
ClearData ==
    /\ Truthy(session, "client_data")
    /\ session' = Pop(session, ClearedKeys)
    /\ last_event' = Event("clear", FALSE, FALSE)
    /\ cleared' = [done |-> TRUE, removed |-> DOMAIN session]
    /\ UNCHANGED <<catalog_vars, positioning_vars, analysis_vars, report_vars,
                   thread_vars>>

\* A visit of the results dashboard.
VisitResults ==
    /\ IF ~Truthy(session, "analysis_run")
       THEN /\ session' = session
            /\ last_event' = Event("results", FALSE, FALSE)
       ELSE LET data == session["client_data"]
                ind == Get(data, "industry", "financial_services")
            IN  /\ session' = DictMerge(session,
                                  [analysis_results |-> run_full_analysis(data, ind)])
                /\ last_event' = Event("results", FALSE, TRUE)
    /\ cleared' = cleared
    /\ UNCHANGED <<catalog_vars, positioning_vars, analysis_vars, report_vars,
                   thread_vars>>

\* A visit of the detailed analysis page.
VisitDetailedAnalysis ==
    /\ session' = session
    /\ last_event' = Event("detailed_analysis", FALSE, Truthy(session, "analysis_run"))
    /\ cleared' = cleared
    /\ UNCHANGED <<catalog_vars, positioning_vars, analysis_vars, report_vars,
                   thread_vars>>

NextSession == Submit \/ ClearData \/ VisitResults \/ VisitDetailedAnalysis

SpecSession == InitSession /\ [][NextSession]_vars

---------------------------------------------------------------------------
(* The state machine of concurrent analyses: MaxThreads invocations of      *)
(* run_full_analysis (engine.py:182-223), one statement or one append of    *)
(* the loop at a time, in any interleaving and with no lock.  The catalog is shared; *)
(* benchmarks, derived, metric_id and the reference results are locals of   *)
(* the invocation; the lists themselves live in heap.                       *)

\* The (client_data, industry) arguments the invocations are given.
ThreadArgs ==
    { <<[revenue |-> FullProfile.revenue, it_budget |-> FullProfile.it_budget],
        "financial_services">>,
      <<[run_pct |-> FullProfile.run_pct, it_ftes |-> FullProfile.it_ftes,
         total_employees |-> FullProfile.total_employees],
        "healthcare">>,
      <<FullProfile, "retail">> }

\* An invocation about to execute line 187.
Invocation(args) ==
    [pc |-> 187, client_data |-> args[1], industry |-> args[2],
     benchmarks |-> EmptyDict, derived |-> EmptyDict, i |-> 0, results |-> 0,
     ret |-> <<>>]

InitConcurrent ==
    /\ catalog = Shipped
    /\ threads \in [1 .. MaxThreads -> { Invocation(args) : args \in ThreadArgs }]
    /\ heap = <<>>
    /\ client_data = EmptyDict
    /\ industry = "financial_services"
    /\ derived = EmptyDict
    /\ benchmarks = EmptyDict
    /\ results = <<>>
    /\ calls = {}
    /\ shared_entries = {}
    /\ NoReport /\ NoSession
    /\ bench = ItSpendPctRevenueBand
    /\ value = Num(7)
    /\ quartile = "none"
    /\ score = ZeroDivisionError
    /\ score_line = 0
    /\ insight = "none"
    /\ insight_arg = "none"
    /\ delta_result = NoDelta

\* results = [] at a list every invocation shares.
NewListShared(t) ==
    /\ threads[t].pc = 189
    /\ heap' = IF heap = <<>> THEN << <<>> >> ELSE heap
    /\ threads' = [threads EXCEPT ![t].results = 1, ![t].i = 1, ![t].pc = 191]

\* Line 187: benchmarks = get_benchmarks(industry)
GetBenchmarksStep(t) ==
    /\ threads[t].pc = 187
    /\ threads' = [threads EXCEPT ![t].benchmarks = get_benchmarks(threads[t].industry),
                                  ![t].pc = 188]
    /\ UNCHANGED heap

\* Line 188: derived = compute_derived_metrics(client_data)
ComputeDerivedStep(t) ==
    /\ threads[t].pc = 188
    /\ threads' = [threads EXCEPT
                      ![t].derived = compute_derived_metrics(threads[t].client_data),
                      ![t].pc = 189]
    /\ UNCHANGED heap

\* Line 189: results = [] allocates a new list.
NewList(t) ==
    /\ threads[t].pc = 189
    /\ heap' = Append(heap, <<>>)
    /\ threads' = [threads EXCEPT ![t].results = Len(heap) + 1, ![t].i = 1,
                                  ![t].pc = 191]

\* Lines 191-193: the position in METRIC_ORDER, from i on, of the first metric
\* the loop does not skip, or one past the end.
NextKept(self) ==
    LET kept == { j \in self.i .. Len(METRIC_ORDER) :
                    /\ METRIC_ORDER[j] \in DOMAIN self.derived
                    /\ METRIC_ORDER[j] \in DOMAIN self.benchmarks }
    IN  IF kept = {} THEN Len(METRIC_ORDER) + 1
        ELSE CHOOSE j \in kept : \A k \in kept : j <= k

\* Lines 191-221: the loop over METRIC_ORDER up to and including its next
\* append; the iterations that only continue change nothing but metric_id.
Iterate(t) ==
    LET self == threads[t]
        j == NextKept(self)
        metric_id == METRIC_ORDER[j]
    IN  /\ self.pc = 191
        /\ j <= Len(METRIC_ORDER)
        /\ heap' = [heap EXCEPT ![self.results] =
                      Append(@, MetricResult(metric_id, self.benchmarks[metric_id],
                                             self.derived[metric_id]))]
        /\ threads' = [threads EXCEPT ![t].i = j + 1]

\* Line 223: return results, once the loop has no metric left.
Return(t) ==
    /\ threads[t].pc = 191
    /\ NextKept(threads[t]) > Len(METRIC_ORDER)
    /\ threads' = [threads EXCEPT ![t].ret = heap[threads[t].results],
                                  ![t].pc = 224]
    /\ UNCHANGED heap

NextConcurrent ==
    \E t \in DOMAIN threads :
        /\ \/ GetBenchmarksStep(t)
           \/ ComputeDerivedStep(t)
           \/ NewList(t)
           \/ Iterate(t)
           \/ Return(t)
        /\ UNCHANGED <<positioning_vars, catalog_vars, analysis_vars, report_vars,
                       session_vars>>

SpecConcurrent == InitConcurrent /\ [][NextConcurrent]_vars

TypeOK ==
    /\ bench \in Bands
    /\ value \in ValuesOf(bench)
    /\ quartile \in Labels \cup {"none"}
    /\ score_line \in 0 .. 151
    /\ insight_arg \in QuartileArgs \cup {"none"}

---------------------------------------------------------------------------
(* Vocabulary of the properties.                                           *)

Lower(b) == b.direction = "lower_is_better"

\* x lies strictly on the favourable side of y.
Beats(b, x, y) == IF Lower(b) THEN FLt(x, y) ELSE FGt(x, y)

BeatsOrTies(b, x, y) == x = y \/ Beats(b, x, y)

\* top_quartile, median, bottom_quartile strictly ordered in the band's direction.
StrictlyOrdered(b) ==
    /\ Beats(b, b.top_quartile, b.median)
    /\ Beats(b, b.median, b.bottom_quartile)

\* Ordered in the band's direction, equal neighbours allowed.
Ordered(b) ==
    /\ BeatsOrTies(b, b.top_quartile, b.median)
    /\ BeatsOrTies(b, b.median, b.bottom_quartile)

Classified == quartile # "none"

Scored == score_line # 0

InsightChosen == insight_arg # "none"

---------------------------------------------------------------------------
\* C1: for every band and value get_quartile_position returns the label of the
\* four-way split: at or on the favourable side of top_quartile gives
\* top_quartile, else at or on the favourable side of median gives
\* above_median, else at or on the favourable side of bottom_quartile gives
\* below_median, else bottom_quartile (<= for lower_is_better, >= for
\* higher_is_better), so a value equal to a threshold lands in the better bucket.
C1_FourWaySplit ==
    Classified =>
        /\ quartile \in Labels
        /\ quartile =
             IF BeatsOrTies(bench, value, bench.top_quartile) THEN "top_quartile"
             ELSE IF BeatsOrTies(bench, value, bench.median) THEN "above_median"
             ELSE IF BeatsOrTies(bench, value, bench.bottom_quartile) THEN "below_median"
             ELSE "bottom_quartile"
        /\ (StrictlyOrdered(bench) /\ value = bench.top_quartile
              => quartile = "top_quartile")
        /\ (StrictlyOrdered(bench) /\ value = bench.median
              => quartile = "above_median")
        /\ (StrictlyOrdered(bench) /\ value = bench.bottom_quartile
              => quartile = "below_median")

\* A strictly ordered band classified at its bottom_quartile threshold.
C1_Witness ==
    /\ Classified
    /\ StrictlyOrdered(bench)
    /\ value = bench.bottom_quartile
    /\ quartile = "below_median"

\* C2: for every band and every value at or beyond the top_quartile threshold
\* (the threshold included) the score is exactly 100 and the bucket is
\* top_quartile.
C2_TopAnchor ==
    BeatsOrTies(bench, value, bench.top_quartile) =>
        /\ Scored => score = Num(100)
        /\ Classified => quartile = "top_quartile"

\* A value equal to the top_quartile threshold, scored and classified.
C2_Witness ==
    /\ value = bench.top_quartile
    /\ Scored /\ Classified
    /\ score = Num(100)
    /\ quartile = "top_quartile"

\* C3 as stated: for every band and every value at or beyond the
\* bottom_quartile threshold (the threshold included) the score is exactly 0
\* and the bucket is bottom_quartile.
C3_Original ==
    BeatsOrTies(bench, bench.bottom_quartile, value) =>
        /\ Scored => score = Num(0)
        /\ Classified => quartile = "bottom_quartile"

\* C3 amended: for every band ordered in its direction (equal neighbours
\* allowed) and every value strictly beyond the bottom_quartile threshold the
\* score is exactly 0 and the bucket is bottom_quartile; at the threshold itself
\* a strictly ordered band scores 0 but is classified below_median.
C3_BottomAnchor ==
    /\ Ordered(bench) /\ Beats(bench, bench.bottom_quartile, value) =>
          /\ Scored => score = Num(0)
          /\ Classified => quartile = "bottom_quartile"
    /\ StrictlyOrdered(bench) /\ value = bench.bottom_quartile =>
          /\ Scored => score = Num(0)
          /\ Classified => quartile = "below_median"

\* A strictly ordered band scored and classified at its bottom_quartile threshold.
C3_Witness ==
    /\ StrictlyOrdered(bench)
    /\ value = bench.bottom_quartile
    /\ Scored /\ Classified
    /\ score = Num(0)

\* C4 as stated: in the better half (top_quartile, above_median) get_insight
\* returns insight_high for lower_is_better and insight_low for
\* higher_is_better; in the worse half the opposite field.
C4_Original ==
    InsightChosen /\ insight_arg \in Labels =>
        insight =
          IF insight_arg \in {"top_quartile", "above_median"}
          THEN (IF Lower(bench) THEN bench.insight_high ELSE bench.insight_low)
          ELSE (IF Lower(bench) THEN bench.insight_low ELSE bench.insight_high)

\* C4 amended: in the better half get_insight returns insight_low for
\* lower_is_better and insight_high for higher_is_better; in the worse half
\* (below_median, bottom_quartile) insight_high for lower_is_better and
\* insight_low for higher_is_better.
C4_InsightTable ==
    InsightChosen /\ insight_arg \in Labels =>
        insight =
          IF insight_arg \in {"top_quartile", "above_median"}
          THEN (IF Lower(bench) THEN bench.insight_low ELSE bench.insight_high)
          ELSE (IF Lower(bench) THEN bench.insight_high ELSE bench.insight_low)

\* The insight of a lower_is_better band chosen for the top quartile.
C4_Witness ==
    /\ InsightChosen
    /\ Lower(bench)
    /\ insight_arg = "top_quartile"
    /\ insight = bench.insight_low

\* Two or all three thresholds of the band are equal.
Degenerate(b) ==
    \/ b.top_quartile = b.median
    \/ b.median = b.bottom_quartile
    \/ b.top_quartile = b.bottom_quartile

\* x lies strictly between thresholds hi (the better one) and lo.
StrictlyBetween(b, hi, x, lo) == Beats(b, hi, x) /\ Beats(b, x, lo)

\* 50 + 50 * |median - v| / |median - top_quartile|
UpperInterpolation(b, v) ==
    FAdd(Num(50), FDiv(FMul(Num(50), FAbs(FSub(b.median, v))),
                      FAbs(FSub(b.median, b.top_quartile))))

\* 50 * |bottom_quartile - v| / |bottom_quartile - median|
LowerInterpolation(b, v) ==
    FDiv(FMul(Num(50), FAbs(FSub(b.bottom_quartile, v))),
         FAbs(FSub(b.bottom_quartile, b.median)))

\* C5: on a band strictly ordered in its direction normalize_score is the
\* piecewise-linear interpolation through (top_quartile, 100), (median, 50),
\* (bottom_quartile, 0): strictly between top_quartile and median the score is
\* 50 + 50 * |median - value| / |median - top_quartile|, strictly between median
\* and bottom_quartile it is 50 * |bottom_quartile - value| /
\* |bottom_quartile - median|; band 5.7 / 7.9 / 11.4 with value 7.0 scores
\* 50 + 50 * 0.9 / 2.2 = 775 / 11.
C5_Interpolation ==
    Scored /\ StrictlyOrdered(bench) =>
        /\ StrictlyBetween(bench, bench.top_quartile, value, bench.median)
             => score = UpperInterpolation(bench, value)
        /\ StrictlyBetween(bench, bench.median, value, bench.bottom_quartile)
             => score = LowerInterpolation(bench, value)
        /\ value = bench.top_quartile => score = Num(100)
        /\ value = bench.median => score = Num(50)
        /\ value = bench.bottom_quartile => score = Num(0)
        /\ bench = ItSpendPctRevenueBand /\ value = Num(7) => score = Frac(775, 11)

\* The catalog band 5.7 / 7.9 / 11.4 scored at 7.0.
C5_Witness ==
    /\ Scored
    /\ bench = ItSpendPctRevenueBand
    /\ value = Num(7)
    /\ score = UpperInterpolation(bench, value)

\* C6 as stated: on any band in which no two neighbouring thresholds are equal
\* the score of the band's median is exactly 50.
C6_Original ==
    /\ Scored
    /\ bench.top_quartile # bench.median
    /\ bench.median # bench.bottom_quartile
    /\ value = bench.median
    => score = Num(50)

\* C6 amended: on any band whose thresholds are strictly ordered in its
\* direction the score of the band's median is exactly 50; on every other band
\* it is 100 or 0.
C6_MedianAnchor ==
    Scored /\ value = bench.median =>
        /\ StrictlyOrdered(bench) => score = Num(50)
        /\ ~StrictlyOrdered(bench) => score \in {Num(100), Num(0)}

\* A strictly ordered band scored at its median.
C6_Witness ==
    /\ Scored
    /\ StrictlyOrdered(bench)
    /\ value = bench.median
    /\ score = Num(50)

\* C7: normalize_score is monotonic in the favourable direction over all the
\* values: on a lower_is_better band v1 <= v2 implies score(v1) >= score(v2), on
\* a higher_is_better band v1 <= v2 implies score(v1) <= score(v2), across the
\* joins at top_quartile, median and bottom_quartile as well.
C7_Monotonic ==
    Scored =>
        \A v2 \in ValuesOf(bench) :
            FLe(value, v2) =>
                LET other == normalize_score(bench, v2).ret
                IN  /\ IsNumber(score) /\ IsNumber(other)
                    /\ Lower(bench) => FLe(other, score)
                    /\ ~Lower(bench) => FLe(score, other)

\* A strictly ordered band scored below 50 at a value past its median, with a
\* second value further on that scores strictly less.
C7_Witness ==
    /\ Scored
    /\ StrictlyOrdered(bench)
    /\ StrictlyBetween(bench, bench.median, value, bench.bottom_quartile)
    /\ FLt(Num(0), score) /\ FLt(score, Num(50))
    /\ \E v2 \in ValuesOf(bench) : FLt(normalize_score(bench, v2).ret, score)

\* C8 as stated: on every strictly ordered band the bucket is top_quartile
\* exactly when score = 100, above_median exactly when 50 <= score < 100,
\* below_median exactly when 0 < score < 50, bottom_quartile exactly when
\* score = 0.
C8_Original ==
    Scored /\ Classified /\ StrictlyOrdered(bench) =>
        /\ quartile = "top_quartile" <=> score = Num(100)
        /\ quartile = "above_median" <=> FLe(Num(50), score) /\ FLt(score, Num(100))
        /\ quartile = "below_median" <=> FLt(Num(0), score) /\ FLt(score, Num(50))
        /\ quartile = "bottom_quartile" <=> score = Num(0)

\* C8 amended: on every strictly ordered band the bucket is top_quartile exactly
\* when score = 100, above_median exactly when 50 <= score < 100, below_median
\* exactly when 0 < score < 50 or the value equals the bottom_quartile threshold
\* (where the score is 0), bottom_quartile exactly when the value is strictly
\* beyond the bottom_quartile threshold; the score is 0 exactly when the value is
\* at or beyond that threshold.
C8_Agreement ==
    Scored /\ Classified /\ StrictlyOrdered(bench) =>
        /\ quartile = "top_quartile" <=> score = Num(100)
        /\ quartile = "above_median" <=> FLe(Num(50), score) /\ FLt(score, Num(100))
        /\ quartile = "below_median" <=>
             \/ FLt(Num(0), score) /\ FLt(score, Num(50))
             \/ value = bench.bottom_quartile
        /\ quartile = "bottom_quartile" <=> Beats(bench, bench.bottom_quartile, value)
        /\ score = Num(0) <=> BeatsOrTies(bench, bench.bottom_quartile, value)

\* A strictly ordered band scored 50 and classified above_median at its median.
C8_Witness ==
    /\ Scored /\ Classified
    /\ StrictlyOrdered(bench)
    /\ value = bench.median
    /\ quartile = "above_median"
    /\ score = Num(50)

\* C9 as stated: on a band with top_quartile = median every value strictly
\* between median and bottom_quartile scores 25, without a division error.
C9_Original ==
    /\ Scored
    /\ bench.top_quartile = bench.median
    /\ StrictlyBetween(bench, bench.median, value, bench.bottom_quartile)
    => IsNumber(score) /\ score = Num(25)

\* C9 amended: on a band with top_quartile = median every value strictly
\* between median and bottom_quartile gets the interpolated score
\* 50 * |bottom_quartile - value| / |bottom_quartile - median|, strictly between
\* 0 and 50, without a division error.
C9_TiedTopMedian ==
    /\ Scored
    /\ bench.top_quartile = bench.median
    /\ StrictlyBetween(bench, bench.median, value, bench.bottom_quartile)
    => /\ IsNumber(score)
       /\ score = LowerInterpolation(bench, value)
       /\ FLt(Num(0), score) /\ FLt(score, Num(50))
       /\ score_line \in {136, 151}

\* A band with top_quartile = median scored, off the midpoint, at a value
\* strictly between median and bottom_quartile.
C9_Witness ==
    /\ Scored
    /\ bench.top_quartile = bench.median
    /\ StrictlyBetween(bench, bench.median, value, bench.bottom_quartile)
    /\ IsNumber(score)
    /\ score # Num(25)

Redirected(b) ==
    [b EXCEPT !.direction =
        IF b.direction = "lower_is_better" THEN "higher_is_better"
        ELSE "lower_is_better"]

DeltaDone == delta_result # NoDelta

\* The catalog entry of one metric with the thresholds and direction of b.
Rebanded(metric_id, b) ==
    DictMerge(DictMerge(METRIC_DEFINITIONS[metric_id],
                        FinancialServicesBands[metric_id]), b)

InRange(x) == IsNumber(x) /\ FLe(Num(0), x) /\ FLe(x, Num(100))

\* C11: every score normalize_score produces, and therefore the score field of
\* the record run_full_analysis builds from the same band and value, is a
\* number in the closed range 0 .. 100, for every band (thresholds equal or not
\* ordered by the direction included) and every value.
C11_ScoreRange ==
    Scored =>
        /\ InRange(score)
        /\ MetricResult("it_spend_pct_revenue",
                        Rebanded("it_spend_pct_revenue", bench), value).score = score

\* A band not ordered by its direction scored strictly inside 0 .. 100.
C11_Witness ==
    /\ Scored
    /\ ~Ordered(bench)
    /\ FLt(Num(0), score) /\ FLt(score, Num(100))

\* The same range on the records run_full_analysis returned for the shipped
\* catalog.
ResultScoresInRange ==
    \A i \in DOMAIN results : InRange(results[i].score)

\* C12: get_delta_vs_median returns delta = value - median and
\* delta_pct = delta / median * 100 when median # 0, delta_pct = 0 when
\* median = 0, never a division error; the result does not depend on the band's
\* direction, and for value = median it is {delta: 0, delta_pct: 0}.
C12_DeltaVsMedian ==
    DeltaDone =>
        /\ IsNumber(delta_result.delta) /\ IsNumber(delta_result.delta_pct)
        /\ delta_result.delta = FSub(value, bench.median)
        /\ bench.median # Num(0) =>
             delta_result.delta_pct =
               FMul(FDiv(delta_result.delta, bench.median), Num(100))
        /\ bench.median = Num(0) => delta_result.delta_pct = Num(0)
        /\ delta_result = get_delta_vs_median(Redirected(bench), value)
        /\ value = bench.median =>
             delta_result = [delta |-> Num(0), delta_pct |-> Num(0)]

\* The delta taken on a band whose median is 0 at a value off the median.
C12_Witness ==
    /\ DeltaDone
    /\ bench.median = Num(0)
    /\ value # bench.median
    /\ delta_result.delta = value
    /\ delta_result.delta_pct = Num(0)

---------------------------------------------------------------------------
(* Vocabulary of the properties of an analysis.                            *)

\* The raw field each ratio metric divides by.
Denominator ==
    [it_spend_pct_revenue |-> "revenue",
     it_spend_per_employee |-> "total_employees",
     it_staff_pct_employees |-> "total_employees",
     it_spend_pct_opex |-> "total_opex",
     it_budget_yoy_growth |-> "it_budget_prior_year",
     it_staffing_ratio |-> "it_ftes",
     cloud_pct_budget |-> "it_budget",
     cybersecurity_pct_budget |-> "it_budget",
     it_labor_pct_budget |-> "it_budget",
     outsourcing_pct_budget |-> "it_budget"]

\* The raw field each pass-through metric copies.
PassThrough ==
    [run_budget_pct |-> "run_pct",
     grow_budget_pct |-> "grow_pct",
     transform_budget_pct |-> "transform_pct",
     system_availability |-> "system_availability",
     it_attrition_rate |-> "it_attrition_rate",
     helpdesk_cost_per_ticket |-> "helpdesk_cost_per_ticket"]

\* The raw field each metric requires; app_pct_budget divides by a sum and is
\* gated on it_budget.
RequiredField == Denominator @@ PassThrough @@ [app_pct_budget |-> "it_budget"]

Called(fn) == fn \in calls

Present(field) == field \in DOMAIN client_data

ZeroOrAbsent(field) == ~Present(field) \/ client_data[field] = Num(0)

Provided(field) == Present(field) /\ client_data[field] # None

Positive(field) == Present(field) /\ FGt(client_data[field], Num(0))

ResultIds == { results[i].metric_id : i \in DOMAIN results }

\* The metric is in neither output, as far as the functions were called.
Omitted(metric_id) ==
    /\ Called("compute_derived_metrics") => metric_id \notin DOMAIN derived
    /\ Called("run_full_analysis") => metric_id \notin ResultIds

KnownIndustry == industry \in DOMAIN industry_benchmarks

\* C13 as stated: a required raw field that is zero or absent omits the metric
\* from both outputs, pass-through metrics included.
C13_Original ==
    \A metric_id \in DOMAIN RequiredField :
        ZeroOrAbsent(RequiredField[metric_id]) => Omitted(metric_id)

\* C13: for every metric and every industry, if the denominator of a ratio
\* metric (the it_budget gate of app_pct_budget) is zero or absent, or the input
\* field of a pass-through metric is absent or None, the metric is in neither
\* compute_derived_metrics's nor run_full_analysis's output; a pass-through
\* input of 0 is kept as the value 0.
C13_OmissionLaw ==
    /\ \A metric_id \in DOMAIN RequiredField \ DOMAIN PassThrough :
          ZeroOrAbsent(RequiredField[metric_id]) => Omitted(metric_id)
    /\ \A metric_id \in DOMAIN PassThrough :
          /\ ~Provided(PassThrough[metric_id]) => Omitted(metric_id)
          /\ /\ Present(PassThrough[metric_id])
             /\ client_data[PassThrough[metric_id]] = Num(0)
             /\ Called("compute_derived_metrics")
             => /\ metric_id \in DOMAIN derived
                /\ derived[metric_id] = Num(0)

\* A filled-in profile with it_ftes = 0, analysed for a known industry:
\* it_staffing_ratio is missing from both outputs, other metrics are there.
C13_Witness ==
    /\ Called("compute_derived_metrics") /\ Called("run_full_analysis")
    /\ KnownIndustry
    /\ Present("it_ftes") /\ client_data["it_ftes"] = Num(0)
    /\ "it_staffing_ratio" \notin DOMAIN derived \cup ResultIds
    /\ "it_spend_pct_revenue" \in DOMAIN derived \cap ResultIds

\* C14: each ratio metric is in compute_derived_metrics's output exactly when
\* its denominator is > 0 (it_staffing_ratio whatever total_employees is), and
\* no value of the output is a division error.
C14_RatioGuards ==
    Called("compute_derived_metrics") =>
        /\ \A metric_id \in DOMAIN Denominator :
              metric_id \in DOMAIN derived <=> Positive(Denominator[metric_id])
        /\ \A metric_id \in DOMAIN derived : IsNumber(derived[metric_id])

\* total_employees = 0 with it_ftes > 0: the two metrics divided by
\* total_employees are omitted and it_staffing_ratio is computed.
C14_Witness ==
    /\ Called("compute_derived_metrics")
    /\ Present("total_employees") /\ client_data["total_employees"] = Num(0)
    /\ Positive("it_ftes")
    /\ "it_spend_per_employee" \notin DOMAIN derived
    /\ "it_staff_pct_employees" \notin DOMAIN derived
    /\ "it_staffing_ratio" \in DOMAIN derived

\* C15: each pass-through metric is in compute_derived_metrics's output exactly
\* when its input field is provided (present and not None), with the value
\* copied unchanged, whatever the other fields are.
C15_PassThrough ==
    Called("compute_derived_metrics") =>
        \A metric_id \in DOMAIN PassThrough :
            /\ metric_id \in DOMAIN derived <=> Provided(PassThrough[metric_id])
            /\ metric_id \in DOMAIN derived =>
                 derived[metric_id] = client_data[PassThrough[metric_id]]

\* run_pct stored as None is omitted while grow_pct is copied.
C15_Witness ==
    /\ Called("compute_derived_metrics")
    /\ Present("run_pct") /\ client_data["run_pct"] = None
    /\ "run_budget_pct" \notin DOMAIN derived
    /\ "grow_budget_pct" \in DOMAIN derived
    /\ derived["grow_budget_pct"] = Num(22)

AppInfraSum ==
    FAdd(Get(client_data, "application_spend", Num(0)),
         Get(client_data, "infrastructure_spend", Num(0)))

\* C16: app_pct_budget is in compute_derived_metrics's output exactly when
\* it_budget > 0 and application_spend + infrastructure_spend > 0, and then
\* equals application_spend / (application_spend + infrastructure_spend) * 100.
C16_AppPctBudget ==
    Called("compute_derived_metrics") =>
        /\ "app_pct_budget" \in DOMAIN derived
             <=> Positive("it_budget") /\ FGt(AppInfraSum, Num(0))
        /\ "app_pct_budget" \in DOMAIN derived =>
             derived["app_pct_budget"] =
               FMul(FDiv(Get(client_data, "application_spend", Num(0)),
                         AppInfraSum), Num(100))

\* it_budget = 0 with a positive application + infrastructure sum: omitted.
C16_Witness ==
    /\ Called("compute_derived_metrics")
    /\ Present("it_budget") /\ client_data["it_budget"] = Num(0)
    /\ FGt(AppInfraSum, Num(0))
    /\ "app_pct_budget" \notin DOMAIN derived

\* The position of a metric id in METRIC_ORDER.
Index(metric_id) ==
    CHOOSE i \in DOMAIN METRIC_ORDER : METRIC_ORDER[i] = metric_id

\* C17: run_full_analysis returns exactly one record for each metric id in both
\* compute_derived_metrics(raw_inputs) and get_benchmarks(industry) and no
\* other; the records are in the relative order of METRIC_ORDER; each record's
\* value, quartile, score, delta, delta_pct and insight are the four
\* positioning functions applied to the derived value and the merged band.
C17_Composition ==
    Called("run_full_analysis") =>
        LET drv == compute_derived_metrics(client_data)
            bms == get_benchmarks(industry)
            both == DOMAIN drv \cap DOMAIN bms
        IN  /\ ResultIds = both
            /\ Len(results) = Cardinality(both)
            /\ \A i, j \in DOMAIN results :
                  i < j => Index(results[i].metric_id) < Index(results[j].metric_id)
            /\ \A i \in DOMAIN results :
                  LET r == results[i]
                      b == bms[r.metric_id]
                      v == drv[r.metric_id]
                  IN  /\ r.value = v
                      /\ r.quartile = get_quartile_position(b, v)
                      /\ r.score = normalize_score(b, v).ret
                      /\ r.delta = get_delta_vs_median(b, v).delta
                      /\ r.delta_pct = get_delta_vs_median(b, v).delta_pct
                      /\ r.insight = get_insight(b, r.quartile)

\* An analysis that skipped a metric missing from the derived values and
\* whose records are ordered neither by rising nor by falling score.
C17_Witness ==
    /\ Called("run_full_analysis")
    /\ Len(results) > 2
    /\ Len(results) < Len(METRIC_ORDER)
    /\ \E i, j \in DOMAIN results : i < j /\ FLt(results[i].score, results[j].score)
    /\ \E i, j \in DOMAIN results : i < j /\ FGt(results[i].score, results[j].score)

\* C18: for an industry that is not a key of the benchmark table,
\* get_benchmarks returns an empty mapping and run_full_analysis an empty list,
\* whatever the raw inputs.
C18_UnknownIndustry ==
    ~KnownIndustry =>
        /\ Called("get_benchmarks") => benchmarks = EmptyDict
        /\ Called("run_full_analysis") => results = <<>>

\* An unknown industry analysed with raw inputs that derive metrics.
C18_Witness ==
    /\ ~KnownIndustry
    /\ Called("get_benchmarks") /\ Called("run_full_analysis")
    /\ Called("compute_derived_metrics") /\ derived # EmptyDict
    /\ benchmarks = EmptyDict /\ results = <<>>

\* C19: the keys of get_benchmarks(industry) are exactly the metric ids with
\* both a definition and a band for the industry; each merged entry has every
\* definition field and every band field, with the band's value where a field
\* name is in both.
C19_Merge ==
    Called("get_benchmarks") =>
        LET industry_data == Get(industry_benchmarks, industry, EmptyDict)
        IN  /\ DOMAIN benchmarks = DOMAIN metric_definitions \cap DOMAIN industry_data
            /\ \A metric_id \in DOMAIN benchmarks :
                  LET definition == metric_definitions[metric_id]
                      band == industry_data[metric_id]
                      merged == benchmarks[metric_id]
                  IN  /\ DOMAIN merged = DOMAIN definition \cup DOMAIN band
                      /\ \A field \in DOMAIN band : merged[field] = band[field]
                      /\ \A field \in DOMAIN definition \ DOMAIN band :
                            merged[field] = definition[field]

\* A catalog with a metric defined but not banded, a metric banded but not
\* defined, and a merged entry whose unit came from the band.
C19_Witness ==
    /\ Called("get_benchmarks")
    /\ KnownIndustry
    /\ DOMAIN metric_definitions \ DOMAIN industry_benchmarks[industry] # {}
    /\ DOMAIN industry_benchmarks[industry] \ DOMAIN metric_definitions # {}
    /\ \E metric_id \in DOMAIN benchmarks :
          /\ benchmarks[metric_id].unit = "band.unit"
          /\ metric_definitions[metric_id].unit # "band.unit"

\* C20: with empty raw inputs compute_derived_metrics returns an empty mapping
\* and run_full_analysis an empty list, for every industry.
C20_EmptyInputs ==
    client_data = EmptyDict =>
        /\ Called("compute_derived_metrics") => derived = EmptyDict
        /\ Called("run_full_analysis") => results = <<>>

\* Empty raw inputs analysed for an industry whose catalog is not empty.
C20_Witness ==
    /\ client_data = EmptyDict
    /\ Called("compute_derived_metrics") /\ Called("run_full_analysis")
    /\ Called("get_benchmarks") /\ benchmarks # EmptyDict
    /\ derived = EmptyDict /\ results = <<>>

---------------------------------------------------------------------------
(* Properties of a report.                                                 *)

\* The fields of the record run_full_analysis appends.
RecordFields ==
    {"metric_id", "name", "category", "unit", "format", "value", "top_quartile",
     "median", "bottom_quartile", "direction", "quartile", "score", "delta",
     "delta_pct", "insight", "source"}

\* Every field of the record is there and no number of it is a division error.
Complete(r) ==
    /\ DOMAIN r = RecordFields
    /\ r.metric_id \in DOMAIN METRIC_DEFINITIONS
    /\ IsNumber(r.value) /\ IsNumber(r.score)
    /\ IsNumber(r.delta) /\ IsNumber(r.delta_pct)
    /\ IsNumber(r.top_quartile) /\ IsNumber(r.median) /\ IsNumber(r.bottom_quartile)
    /\ r.quartile \in Labels
    /\ r.direction \in Directions

\* Every field of the raw inputs holds a number.
NumbersOnly == \A field \in DOMAIN client_data : client_data[field] # None

NonNegative ==
    \A field \in DOMAIN client_data : FGe(client_data[field], Num(0))

\* The metric ids left for run_full_analysis once the field is removed from
\* the raw inputs: those still derived that have a definition and a band for
\* the industry.
IdsWithout(field) ==
    { metric_id \in DOMAIN compute_derived_metrics(Change(client_data, field, Absent)) :
        metric_id \in DOMAIN Get(industry_benchmarks, industry, EmptyDict)
        /\ metric_id \in DOMAIN metric_definitions }

\* C21 as stated: for raw inputs of numbers, negative ones included, every
\* record is complete and removing a field never adds a record.
C21_Original ==
    Called("run_full_analysis") /\ NumbersOnly =>
        /\ \A i \in DOMAIN results : Complete(results[i])
        /\ \A field \in DOMAIN client_data : IdsWithout(field) \subseteq ResultIds

\* C21: run_full_analysis never raises: for raw inputs whose fields are absent
\* or numbers (zero and negative included) and every industry string, every
\* record of the list is complete; when no number is negative, removing a
\* field never adds a record.
C21_NeverRaises ==
    Called("run_full_analysis") /\ NumbersOnly =>
        /\ \A i \in DOMAIN results : Complete(results[i])
        /\ NonNegative =>
             \A field \in DOMAIN client_data : IdsWithout(field) \subseteq ResultIds

\* A full profile with total_employees = 0: a shorter list of complete
\* records, and removing revenue makes it shorter still.
C21_Witness ==
    /\ Called("run_full_analysis") /\ NumbersOnly /\ NonNegative
    /\ Present("total_employees") /\ client_data["total_employees"] = Num(0)
    /\ Len(results) > 2
    /\ "it_spend_pct_revenue" \in ResultIds \ IdsWithout("revenue")

\* How many records of the list carry the quartile label.
CountOf(rs, label) == Cardinality({ i \in DOMAIN rs : rs[i].quartile = label })

\* C22: get_summary_stats on an empty list returns total, the four bucket
\* counts and avg_score all 0, without error; on a non-empty list total is the
\* number of records, each bucket count the number of records with that
\* quartile label, and avg_score times total the sum of the scores.
C22_Summary ==
    Called("get_summary_stats") =>
        /\ summarized = <<>> =>
             summary = [total |-> 0, top_q |-> 0, above_med |-> 0, below_med |-> 0,
                        bottom_q |-> 0, avg_score |-> Num(0)]
        /\ summarized # <<>> =>
             /\ summary.total = Len(summarized)
             /\ summary.top_q = CountOf(summarized, "top_quartile")
             /\ summary.above_med = CountOf(summarized, "above_median")
             /\ summary.below_med = CountOf(summarized, "below_median")
             /\ summary.bottom_q = CountOf(summarized, "bottom_quartile")
             /\ IsNumber(summary.avg_score)
             /\ FMul(summary.avg_score, Num(summary.total))
                  = Sum([i \in DOMAIN summarized |-> summarized[i].score])

\* The summary of a list with records in at least three buckets.
C22_Witness ==
    /\ Called("get_summary_stats")
    /\ Len(summarized) > 3
    /\ Cardinality({ b \in {"top_q", "above_med", "below_med", "bottom_q"} :
                       summary[b] > 0 }) >= 3
    /\ FLt(Num(0), summary.avg_score)

\* C25: every band of the shipped catalog is strictly ordered in the
\* direction of its metric's definition; every banded metric id has a
\* definition, and every definition's category is one of CATEGORIES.
C25_CatalogOrdered ==
    catalog = Shipped =>
        /\ \A ind \in DOMAIN industry_benchmarks :
              \A metric_id \in DOMAIN industry_benchmarks[ind] :
                  /\ metric_id \in DOMAIN metric_definitions
                  /\ LET band == industry_benchmarks[ind][metric_id]
                         direction == metric_definitions[metric_id].direction
                     IN  /\ direction \in Directions
                         /\ direction = "lower_is_better" =>
                              /\ FLt(band.top_quartile, band.median)
                              /\ FLt(band.median, band.bottom_quartile)
                         /\ direction = "higher_is_better" =>
                              /\ FGt(band.top_quartile, band.median)
                              /\ FGt(band.median, band.bottom_quartile)
        /\ \A metric_id \in DOMAIN metric_definitions :
              \E i \in DOMAIN CATEGORIES :
                  metric_definitions[metric_id].category = CATEGORIES[i]

\* An analysis on the shipped catalog that returned a record of a
\* lower_is_better band and one of a higher_is_better band.
C25_Witness ==
    /\ catalog = Shipped
    /\ Called("run_full_analysis")
    /\ \E i \in DOMAIN results :
          /\ results[i].direction = "lower_is_better"
          /\ FLt(results[i].top_quartile, results[i].bottom_quartile)
    /\ \E i \in DOMAIN results :
          /\ results[i].direction = "higher_is_better"
          /\ FGt(results[i].top_quartile, results[i].bottom_quartile)

\* The merged catalog entry of a metric the industry has a band for.
MergedBand(metric_id) ==
    DictMerge(metric_definitions[metric_id], industry_benchmarks[industry][metric_id])

\* C27: get_insight returns the band's insight_aligned text only for a bucket
\* label outside the four quartile labels; the insight of every record
\* run_full_analysis returns is the band's insight_high or insight_low, never
\* insight_aligned.
C27_NeverAligned ==
    Called("run_full_analysis") =>
        \A i \in DOMAIN results :
            LET r == results[i]
                b == MergedBand(r.metric_id)
            IN  /\ \A q \in QuartileArgs :
                      get_insight(b, q) = b.insight_aligned <=> q \notin Labels
                /\ r.insight \in {b.insight_high, b.insight_low}
                /\ r.insight # b.insight_aligned

\* An analysis with a record in each of the four buckets, some carrying the
\* insight_high text and some the insight_low text.
C27_Witness ==
    /\ Called("run_full_analysis")
    /\ { results[i].quartile : i \in DOMAIN results } = Labels
    /\ \E i \in DOMAIN results :
          results[i].insight = MergedBand(results[i].metric_id).insight_high
    /\ \E i \in DOMAIN results :
          results[i].insight = MergedBand(results[i].metric_id).insight_low

\* C28: for the summary of a list run_full_analysis returned, total is the sum
\* of the four bucket counts, total is at most the length of METRIC_ORDER, and
\* 0 <= avg_score <= 100.
C28_SummaryOfAnalysis ==
    /\ Called("get_summary_stats")
    /\ Called("run_full_analysis")
    /\ summarized = results
    => /\ summary.total
            = summary.top_q + summary.above_med + summary.below_med + summary.bottom_q
       /\ summary.total = Len(results)
       /\ summary.total <= Len(METRIC_ORDER)
       /\ InRange(summary.avg_score)

\* The summary of an analysis that returned every metric of METRIC_ORDER, with
\* an average strictly inside 0 .. 100.
C28_Witness ==
    /\ Called("get_summary_stats")
    /\ Called("run_full_analysis")
    /\ summarized = results
    /\ summary.total = Len(METRIC_ORDER)
    /\ FLt(Num(0), summary.avg_score) /\ FLt(summary.avg_score, Num(100))

---------------------------------------------------------------------------
(* Further properties of the positioning functions.                        *)

\* The source lines of normalize_score's 'range_val == 0' returns.
ZeroWidthReturns == {130, 135, 145, 150}

\* C26: for every band (any ordering of thresholds, either direction) and
\* every value, normalize_score never returns through a 'range_val == 0'
\* branch: the result is 100, 0 or an interpolation over a segment of non-zero
\* width.
C26_FallbackUnreachable ==
    Scored =>
        /\ score_line \notin ZeroWidthReturns
        /\ score_line \in {124, 139} => score = Num(100)
        /\ score_line \in {126, 141} => score = Num(0)
        /\ score_line \in {131, 146} =>
             /\ bench.median # bench.top_quartile
             /\ score = UpperInterpolation(bench, value)
        /\ score_line \in {136, 151} =>
             /\ bench.bottom_quartile # bench.median
             /\ score = LowerInterpolation(bench, value)

\* A band with top_quartile = median scored at a value strictly between the
\* median and the bottom quartile: interpolated over the lower segment.
C26_Witness ==
    /\ Scored
    /\ bench.top_quartile = bench.median
    /\ bench.median # bench.bottom_quartile
    /\ score_line \in {136, 151}
    /\ FLt(Num(0), score) /\ FLt(score, Num(50))

---------------------------------------------------------------------------
(* Properties of concurrent analyses.                                      *)

Returned(t) == threads[t].pc = 224

\* C23: under any interleaving of concurrent run_full_analysis invocations
\* with no locking, each returns the list it returns when run alone.
C23_NoInterference ==
    \A t \in DOMAIN threads :
        Returned(t) =>
            threads[t].ret = run_full_analysis(threads[t].client_data,
                                               threads[t].industry)

\* One invocation has returned a non-empty list while another, given other
\* arguments, is inside its loop with records already appended.
C23_Witness ==
    \E t, u \in DOMAIN threads :
        /\ Returned(t) /\ threads[t].ret # <<>>
        /\ threads[u].pc = 191
        /\ threads[u].client_data # threads[t].client_data
        /\ threads[u].results # threads[t].results
        /\ heap[threads[u].results] # <<>>
        /\ NextKept(threads[u]) <= Len(METRIC_ORDER)

---------------------------------------------------------------------------
(* Frame properties of the core functions.                                 *)

\* A step leaves the catalog and the caller's arguments as they were, and a
\* get_summary_stats step its results argument.
FrameKept ==
    /\ catalog' = catalog
    /\ metric_definitions' = METRIC_DEFINITIONS
    /\ industry_benchmarks' = INDUSTRY_BENCHMARKS
    /\ client_data' = client_data
    /\ industry' = industry
    /\ "get_summary_stats" \in calls' \ calls => results' = results
    /\ "write" \in calls' \ calls =>
         /\ benchmarks' # benchmarks
         /\ get_benchmarks(industry)' = get_benchmarks(industry)

\* C24: the core functions leave their inputs and the catalog unchanged: over
\* any sequence of get_benchmarks, compute_derived_metrics, run_full_analysis
\* and get_summary_stats calls the catalog tables keep their initial values and
\* the caller's raw_inputs and results arguments are not modified; a write to
\* an entry get_benchmarks returned changes neither the catalog nor what a
\* later call returns.
C24_Frame == [][FrameKept]_vars

\* Every function has been called and the caller has overwritten the median
\* of a returned entry: the caller's mapping differs from what get_benchmarks
\* returns now, and the catalog is as shipped.
C24_Witness ==
    /\ calls = {"get_benchmarks", "compute_derived_metrics", "run_full_analysis",
                "get_summary_stats", "write"}
    /\ results # <<>>
    /\ benchmarks # get_benchmarks(industry)
    /\ industry_benchmarks = INDUSTRY_BENCHMARKS

---------------------------------------------------------------------------
(* Session state of the user interface.                                    *)

Stored(key) == key \in DOMAIN session

\* The key is stored now exactly as it was before the last event.
SameAsBefore(key) ==
    /\ Stored(key) <=> key \in DOMAIN last_event.before
    /\ Stored(key) => session[key] = last_event.before[key]

ValidClient(data) ==
    /\ data.company_name # ""
    /\ FGt(data.revenue, Num(0))
    /\ FGt(data.total_employees, Num(0))
    /\ FGt(data.it_budget, Num(0))
    /\ data.industry \in DOMAIN INDUSTRIES

\* C29: in every reachable session state, analysis_run is set only when
\* client_data is present with a non-empty company_name, revenue > 0,
\* total_employees > 0, it_budget > 0 and an industry that is a key of
\* INDUSTRIES; and a submission that fails validation leaves client_data and
\* analysis_run exactly as they were.
C29_SessionInvariant ==
    /\ Stored("analysis_run") =>
         /\ session["analysis_run"] = TRUE
         /\ Stored("client_data")
         /\ ValidClient(session["client_data"])
    /\ last_event.kind = "submit" /\ ~last_event.accepted =>
         /\ SameAsBefore("client_data")
         /\ SameAsBefore("analysis_run")

\* A submission was rejected while an earlier accepted one is stored.
C29_Witness ==
    /\ last_event.kind = "submit"
    /\ ~last_event.accepted
    /\ Stored("analysis_run")
    /\ Stored("analysis_results")

\* C30: Clear Data removes client_data, analysis_run and analysis_results
\* together; from then until the next accepted submission the results and
\* detailed analysis pages do not call run_full_analysis and analysis_results
\* stays absent; and in every reachable session state analysis_results
\* present implies analysis_run set.
C30_ClearData ==
    /\ last_event.kind = "clear" => DOMAIN session \cap ClearedKeys = {}
    /\ cleared.done =>
         /\ ~Stored("analysis_results")
         /\ last_event.kind \in {"results", "detailed_analysis"}
              => ~last_event.analysed
    /\ Stored("analysis_results") => Stored("analysis_run")

\* The three keys were cleared together and a page was visited afterwards.
C30_Witness ==
    /\ cleared.done
    /\ cleared.removed = {"client_data", "analysis_run", "analysis_results"}
    /\ last_event.kind \in {"results", "detailed_analysis"}
    /\ session = EmptyDict

====
